---- MODULE Spec2Model ----
(***************************************************************************)
(* Transactional core of the point-of-sale back office: inventory stock    *)
(* per (branch, product), sales with their lines, goods receive notes      *)
(* with their lines, and customer ledger entries with running balances.    *)
(* Rows of the database and the in-memory model instances that are saved   *)
(* into it are separate parts of the state: an instance carries the        *)
(* values it was loaded with (its _original_status).                       *)
(***************************************************************************)
EXTENDS Integers, Sequences, FiniteSets, TLC

\* ---------------------------------------------------------------- bounds
MaxSales == 1
MaxItems == 2
MaxQty == 2
MaxCopies == 2
MaxGrns == 1
MaxGrnItems == 2
MaxGrnCopies == 2
MaxStock == 2
MaxEntries == 1
MaxEntryCopies == 2
MaxAmount == 1
MaxBalance == 4
MaxTxns == 2
MaxMoved == 3

\* ------------------------------------------------------- reference data
PENDING == "PENDING"
COMPLETED == "COMPLETED"
CANCELLED == "CANCELLED"
REFUNDED == "REFUNDED"

SaleStatus == {PENDING, COMPLETED, CANCELLED, REFUNDED}
GRNStatus == {PENDING, COMPLETED, CANCELLED}

CASH == "CASH"
ON_ACCOUNT == "ACCOUNT"

Branches == {"B1", "B2"}
Products == {"P", "Q", "SVC"}
Customers == {"C1", "C2"}
NoCustomer == "NONE"

\* Product.is_inventory_tracked as the products were created: P and Q are
\* stocked goods, SVC is a service.
TrackedAtStart == [p \in Products |-> p \in {"P", "Q"}]

StockKeys == Branches \X Products
SaleIds == 1..MaxSales
ItemSlots == 1..MaxItems
Copies == 1..MaxCopies
GrnIds == 1..MaxGrns
GrnItemSlots == 1..MaxGrnItems
GrnCopies == 1..MaxGrnCopies
EntryIds == 1..MaxEntries
EntryCopies == 1..MaxEntryCopies
Txns == 1..MaxTxns

INVOICE == "INVOICE"
PAYMENT == "PAYMENT"
EntryType == {INVOICE, PAYMENT, "CREDIT_NOTE", "DEBIT_NOTE", "OPENING"}

VARIABLES
    stock,      \* InventoryStock rows: (branch, product) -> [present, quantity]
    saleDb,     \* Sale rows by pk
    saleItems,  \* SaleItem rows by pk
    inst,       \* in-memory Sale instances
    grnDb,      \* GoodsReceiveNote rows by pk
    grnItems,   \* GRNItem rows by pk
    ginst,      \* in-memory GoodsReceiveNote instances
    entries,    \* CustomerLedgerEntry rows by pk
    balance,    \* Customer.current_balance by customer
    einst,      \* in-memory CustomerLedgerEntry instances
    txn,        \* the open database transactions of the concurrent runs
    last,       \* the operation that produced this state and its outcome
    hist,       \* bookkeeping of the stock movements made so far
    tracked     \* Product.is_inventory_tracked by product

saleSide == <<saleDb, saleItems, inst>>
grnSide == <<grnDb, grnItems, ginst>>
ledgerSide == <<entries, balance, einst>>
vars == <<stock, saleDb, saleItems, inst, grnDb, grnItems, ginst, entries, balance,
          einst, txn, last, hist, tracked>>

\* Product.is_inventory_tracked, as stored when the operation reads it.
is_inventory_tracked(p) == tracked[p]

\* ------------------------------------------------------------ row shapes
NoStock == [present |-> FALSE, quantity |-> 0]

NoSale == [present |-> FALSE, status |-> PENDING, stock_deducted |-> FALSE,
           sub_total |-> 0, discount_amount |-> 0, tax_amount |-> 0,
           grand_total |-> 0, branch |-> "B1", payment_type |-> CASH,
           customer |-> NoCustomer]

NoItem == [present |-> FALSE, sale |-> 0, product |-> "P", quantity |-> 0,
           unit_price_at_sale |-> 0, discount_amount_item |-> 0, total_price |-> 0]

NoInst == [live |-> FALSE, pk |-> 0, status |-> PENDING, original_status |-> PENDING,
           stock_deducted |-> FALSE, sub_total |-> 0, discount_amount |-> 0,
           tax_amount |-> 0, grand_total |-> 0, branch |-> "B1",
           payment_type |-> CASH, customer |-> NoCustomer]

NoGrn == [present |-> FALSE, status |-> PENDING, branch |-> "B1"]

NoGrnItem == [present |-> FALSE, grn |-> 0, product |-> "P", quantity_received |-> 0,
              cost_price_per_unit |-> 0]

NoGInst == [live |-> FALSE, pk |-> 0, status |-> PENDING, original_status |-> PENDING,
            branch |-> "B1"]

NoEntry == [present |-> FALSE, customer |-> "C1", entry_type |-> INVOICE,
            debit_amount |-> 0, credit_amount |-> 0, sale |-> 0]

NoEInst == [live |-> FALSE, pk |-> 0, customer |-> "C1", entry_type |-> INVOICE,
            debit_amount |-> 0, credit_amount |-> 0, sale |-> 0,
            original_debit_amount |-> 0, original_credit_amount |-> 0]

NoStockRows == [key \in StockKeys |-> NoStock]

\* What `last` records of a step: the operation, the instance it ran on, the
\* stock action its save chose, and whether it ended without an exception.
\* phase and snap follow a completion of a Pending sale into its cancellation;
\* of a receipt save that raised they hold the line whose stock row save
\* raised and the stock rows written inside the transaction until then.
Did(op, copy, act, ok) ==
    [op |-> op, copy |-> copy, act |-> act, ok |-> ok, phase |-> 0, snap |-> NoStockRows]

Other == Did("other", 0, "none", TRUE)

\* ----------------------------------------------------------------- sales

\* Sale.__init__ for a new instance: _original_status is the status given.
NewSaleInstance(st, b, pt, c) ==
    [NoInst EXCEPT !.live = TRUE, !.status = st, !.original_status = st,
                   !.branch = b, !.payment_type = pt, !.customer = c]

\* Sale.__init__ for an instance loaded from its row.
LoadedSaleInstance(pk, row) ==
    [live |-> TRUE, pk |-> pk, status |-> row.status, original_status |-> row.status,
     stock_deducted |-> row.stock_deducted, sub_total |-> row.sub_total,
     discount_amount |-> row.discount_amount, tax_amount |-> row.tax_amount,
     grand_total |-> row.grand_total, branch |-> row.branch,
     payment_type |-> row.payment_type, customer |-> row.customer]

\* self.items.all(): the persisted lines of sale pk, as slots in pk order.
RECURSIVE SumTotalPrice(_, _, _)
SumTotalPrice(items, pk, k) ==
    IF k > MaxItems THEN 0
    ELSE (IF items[k].present /\ items[k].sale = pk THEN items[k].total_price ELSE 0)
         + SumTotalPrice(items, pk, k + 1)

\* A recomputation that would start the sum from the sub_total the instance
\* holds instead of from zero.
update_calculated_fields_accumulating(self, items) ==
    LET current_sub_total ==
            self.sub_total + (IF self.pk # 0 THEN SumTotalPrice(items, self.pk, 1) ELSE 0)
    IN [self EXCEPT !.sub_total = current_sub_total,
                    !.grand_total = (current_sub_total - self.discount_amount)
                                    + self.tax_amount]

\* A recomputation that would give a sale without primary key totals of zero
\* whatever its discount and tax.
update_calculated_fields_zero_when_new(self, items) ==
    IF self.pk = 0 THEN [self EXCEPT !.sub_total = 0, !.grand_total = 0]
    ELSE LET current_sub_total == SumTotalPrice(items, self.pk, 1)
         IN [self EXCEPT !.sub_total = current_sub_total,
                         !.grand_total = (current_sub_total - self.discount_amount)
                                         + self.tax_amount]

\* Sale.update_calculated_fields
update_calculated_fields(self, items) ==
    LET current_sub_total == IF self.pk # 0 THEN SumTotalPrice(items, self.pk, 1) ELSE 0
    IN [self EXCEPT !.sub_total = current_sub_total,
                    !.grand_total = (current_sub_total - self.discount_amount)
                                    + self.tax_amount]

\* The loop of _perform_stock_deduction from line k on. Returns the stock rows
\* as written so far and whether a ValidationError was raised.
RECURSIVE DeductLines(_, _, _, _, _)
DeductLines(st, items, pk, b, k) ==
    IF k > MaxItems THEN [ok |-> TRUE, stock |-> st]
    ELSE LET item == items[k]
             key == <<b, item.product>>
         IN IF ~item.present \/ item.sale # pk THEN DeductLines(st, items, pk, b, k + 1)
            ELSE IF ~is_inventory_tracked(item.product)
                 THEN DeductLines(st, items, pk, b, k + 1)
            ELSE IF st[key].present
                 THEN IF st[key].quantity < item.quantity
                      THEN [ok |-> FALSE, stock |-> st]
                      ELSE DeductLines([st EXCEPT ![key].quantity = @ - item.quantity],
                                       items, pk, b, k + 1)
            ELSE IF item.quantity > 0
                 THEN [ok |-> FALSE, stock |-> st]
                 ELSE DeductLines(st, items, pk, b, k + 1)

\* A deduction that would mark the sale before walking its lines.
perform_stock_deduction_flag_first(self, items, st) ==
    IF self.pk = 0 THEN [ok |-> TRUE, stock |-> st, self |-> self]
    ELSE LET r == DeductLines(st, items, self.pk, self.branch, 1)
         IN [ok |-> r.ok, stock |-> r.stock,
             self |-> [self EXCEPT !.stock_deducted = TRUE]]

\* Sale._perform_stock_deduction: [ok, stock, self].
perform_stock_deduction(self, items, st) ==
    IF self.pk = 0 THEN [ok |-> TRUE, stock |-> st, self |-> self]
    ELSE LET r == DeductLines(st, items, self.pk, self.branch, 1)
         IN [ok |-> r.ok, stock |-> r.stock,
             self |-> IF r.ok THEN [self EXCEPT !.stock_deducted = TRUE] ELSE self]

\* A reversal loop that would restock every line, tracked or not.
RECURSIVE RestockEveryLine(_, _, _, _, _)
RestockEveryLine(st, items, pk, b, k) ==
    IF k > MaxItems THEN st
    ELSE LET item == items[k]
             key == <<b, item.product>>
         IN IF ~item.present \/ item.sale # pk THEN RestockEveryLine(st, items, pk, b, k + 1)
            ELSE RestockEveryLine(
                    [st EXCEPT ![key] = [present |-> TRUE,
                                         quantity |-> (IF @.present THEN @.quantity ELSE 0)
                                                      + item.quantity]],
                    items, pk, b, k + 1)

\* A reversal loop that would pass over a line whose stock row is missing.
RECURSIVE RestockExistingRows(_, _, _, _, _)
RestockExistingRows(st, items, pk, b, k) ==
    IF k > MaxItems THEN st
    ELSE LET item == items[k]
             key == <<b, item.product>>
         IN IF ~item.present \/ item.sale # pk
            THEN RestockExistingRows(st, items, pk, b, k + 1)
            ELSE IF ~is_inventory_tracked(item.product) \/ ~st[key].present
                 THEN RestockExistingRows(st, items, pk, b, k + 1)
            ELSE RestockExistingRows([st EXCEPT ![key].quantity = @ + item.quantity],
                                     items, pk, b, k + 1)

\* The loop of _perform_stock_reversal from line k on: get_or_create, add, save.
RECURSIVE RestockLines(_, _, _, _, _)
RestockLines(st, items, pk, b, k) ==
    IF k > MaxItems THEN st
    ELSE LET item == items[k]
             key == <<b, item.product>>
         IN IF ~item.present \/ item.sale # pk THEN RestockLines(st, items, pk, b, k + 1)
            ELSE IF ~is_inventory_tracked(item.product)
                 THEN RestockLines(st, items, pk, b, k + 1)
            ELSE RestockLines(
                    [st EXCEPT ![key] = [present |-> TRUE,
                                         quantity |-> (IF @.present THEN @.quantity ELSE 0)
                                                      + item.quantity]],
                    items, pk, b, k + 1)

\* A reversal that would mark the sale and leave the stock rows alone.
perform_stock_reversal_flag_only(self, items, st) ==
    [stock |-> st, self |-> [self EXCEPT !.stock_deducted = FALSE]]

\* Sale._perform_stock_reversal: [stock, self].
perform_stock_reversal(self, items, st) ==
    IF self.pk = 0 THEN [stock |-> st, self |-> self]
    ELSE [stock |-> RestockLines(st, items, self.pk, self.branch, 1),
          self |-> [self EXCEPT !.stock_deducted = FALSE]]

\* A block without transaction.atomic(): its writes stay whatever happens.
Autocommit(before, after, ok) == after

\* transaction.atomic(): the writes of the block are kept when it ends
\* normally and undone when an exception leaves it.
Atomic(before, after, ok) == IF ok THEN after ELSE before

FreeSalePk(rows) == CHOOSE pk \in SaleIds : ~rows[pk].present /\
                        \A q \in SaleIds : q < pk => rows[q].present

RowOf(self) ==
    [present |-> TRUE, status |-> self.status, stock_deducted |-> self.stock_deducted,
     sub_total |-> self.sub_total, discount_amount |-> self.discount_amount,
     tax_amount |-> self.tax_amount, grand_total |-> self.grand_total,
     branch |-> self.branch, payment_type |-> self.payment_type,
     customer |-> self.customer]

\* models.Model.save of a Sale: an INSERT for a new instance, an UPDATE of every
\* field otherwise, or of the named fields only with update_fields.
\* Returns [rows, self].
ModelSaveSale(self, rows, update_fields) ==
    IF self.pk = 0
    THEN LET pk == FreeSalePk(rows)
         IN [rows |-> [rows EXCEPT ![pk] = RowOf(self)], self |-> [self EXCEPT !.pk = pk]]
    ELSE IF update_fields
    THEN [rows |-> [rows EXCEPT ![self.pk].sub_total = self.sub_total,
                                ![self.pk].grand_total = self.grand_total],
          self |-> self]
    ELSE [rows |-> [rows EXCEPT ![self.pk] = RowOf(self)], self |-> self]

DeductionDue(self) ==
    \/ self.pk = 0 /\ self.status = COMPLETED /\ ~self.stock_deducted
    \/ self.original_status # self.status /\ self.status = COMPLETED
       /\ ~self.stock_deducted

\* A reversal test that would not look at stock_deducted.
ReversalDueUnflagged(self) ==
    /\ ~DeductionDue(self)
    /\ self.original_status # self.status
    /\ self.original_status = COMPLETED

ReversalDue(self) ==
    /\ ~DeductionDue(self)
    /\ self.original_status # self.status
    /\ self.original_status = COMPLETED
    /\ self.stock_deducted

\* Sale.save: [ok, act, self, stock, rows].
SaleSaveOutcome(self0, items, st, rows, update_fields) ==
    LET self == update_calculated_fields(self0, items)
    IN IF DeductionDue(self)
       THEN LET d == perform_stock_deduction(self, items, st)
                m == ModelSaveSale(d.self, rows, update_fields)
            IN [ok |-> d.ok, act |-> "deduct",
                self |-> IF d.ok THEN [m.self EXCEPT !.original_status = m.self.status]
                         ELSE d.self,
                stock |-> Atomic(st, d.stock, d.ok),
                rows |-> Atomic(rows, m.rows, d.ok)]
       ELSE IF ReversalDue(self)
       THEN LET r == perform_stock_reversal(self, items, st)
                m == ModelSaveSale(r.self, rows, update_fields)
            IN [ok |-> TRUE, act |-> "restock",
                self |-> [m.self EXCEPT !.original_status = m.self.status],
                stock |-> r.stock, rows |-> m.rows]
       ELSE LET m == ModelSaveSale(self, rows, update_fields)
            IN [ok |-> TRUE, act |-> "none",
                self |-> [m.self EXCEPT !.original_status = m.self.status],
                stock |-> st, rows |-> m.rows]

\* ------------------------------------------------------- goods receipts

NewGrnInstance(st, b) ==
    [NoGInst EXCEPT !.live = TRUE, !.status = st, !.original_status = st, !.branch = b]

LoadedGrnInstance(pk, row) ==
    [live |-> TRUE, pk |-> pk, status |-> row.status, original_status |-> row.status,
     branch |-> row.branch]

\* The loop of process_stock_update from line k on: get_or_create, add, save.
RECURSIVE ReceiveLines(_, _, _, _, _)
ReceiveLines(st, gitems, pk, b, k) ==
    IF k > MaxGrnItems THEN st
    ELSE LET item == gitems[k]
             key == <<b, item.product>>
         IN IF ~item.present \/ item.grn # pk THEN ReceiveLines(st, gitems, pk, b, k + 1)
            ELSE IF ~is_inventory_tracked(item.product)
                 THEN ReceiveLines(st, gitems, pk, b, k + 1)
            ELSE ReceiveLines(
                    [st EXCEPT ![key] = [present |-> TRUE,
                                         quantity |-> (IF @.present THEN @.quantity ELSE 0)
                                                      + item.quantity_received]],
                    gitems, pk, b, k + 1)

\* A completion that would set each stock row to the line quantity instead of
\* adding to it.
process_stock_update_overwrite(self, gitems, st) ==
    IF self.status # COMPLETED THEN st
    ELSE ReceiveLines([key \in StockKeys |-> NoStock], gitems, self.pk, self.branch, 1)

\* A completion that would look its stock rows up by product alone, adding
\* to the rows of every branch.
process_stock_update_any_branch(self, gitems, st) ==
    IF self.status # COMPLETED THEN st
    ELSE ReceiveLines(ReceiveLines(st, gitems, self.pk, "B1", 1), gitems, self.pk, "B2", 1)

\* GoodsReceiveNote.process_stock_update
process_stock_update(self, gitems, st) ==
    IF self.status # COMPLETED THEN st
    ELSE ReceiveLines(st, gitems, self.pk, self.branch, 1)

\* A leave of Completed that would create a missing stock row from zero and
\* subtract from it.
RECURSIVE revert_stock_update_create(_, _, _, _)
revert_stock_update_create(self, gitems, st, k) ==
    IF k > MaxGrnItems THEN st
    ELSE LET item == gitems[k]
             key == <<self.branch, item.product>>
         IN IF ~item.present \/ item.grn # self.pk
            THEN revert_stock_update_create(self, gitems, st, k + 1)
            ELSE IF ~is_inventory_tracked(item.product)
                 THEN revert_stock_update_create(self, gitems, st, k + 1)
            ELSE revert_stock_update_create(self, gitems,
                     [st EXCEPT ![key] = [present |-> TRUE,
                                          quantity |-> @.quantity - item.quantity_received]],
                     k + 1)

\* A leave of Completed that would subtract nothing.
RECURSIVE revert_stock_update_keep(_, _, _, _)
revert_stock_update_keep(self, gitems, st, k) ==
    IF k > MaxGrnItems THEN st ELSE revert_stock_update_keep(self, gitems, st, k + 1)

\* GoodsReceiveNote.revert_stock_update: subtract from the row when there is
\* one, pass when there is none.
RECURSIVE revert_stock_update(_, _, _, _)
revert_stock_update(self, gitems, st, k) ==
    IF k > MaxGrnItems THEN st
    ELSE LET item == gitems[k]
             key == <<self.branch, item.product>>
         IN IF ~item.present \/ item.grn # self.pk
            THEN revert_stock_update(self, gitems, st, k + 1)
            ELSE IF ~is_inventory_tracked(item.product)
                 THEN revert_stock_update(self, gitems, st, k + 1)
            ELSE IF st[key].present
                 THEN revert_stock_update(self, gitems,
                          [st EXCEPT ![key].quantity = @ - item.quantity_received], k + 1)
            ELSE revert_stock_update(self, gitems, st, k + 1)

FreeGrnPk(rows) == CHOOSE pk \in GrnIds : ~rows[pk].present /\
                       \A q \in GrnIds : q < pk => rows[q].present

\* models.Model.save of a GoodsReceiveNote: [rows, self].
ModelSaveGrn(self, rows) ==
    LET pk == IF self.pk = 0 THEN FreeGrnPk(rows) ELSE self.pk
    IN [rows |-> [rows EXCEPT ![pk] = [present |-> TRUE, status |-> self.status,
                                       branch |-> self.branch]],
        self |-> [self EXCEPT !.pk = pk]]

\* A save that would run the completion on every save of a Completed
\* receipt, whether its status changed or not.
GrnSaveOutcome_by_state(self0, gitems, st, rows) ==
    LET m == ModelSaveGrn(self0, rows)
        self == m.self
        done == [self EXCEPT !.original_status = self.status]
    IN IF self.status = COMPLETED
       THEN [act |-> IF self.original_status # COMPLETED \/ self0.pk = 0
                     THEN "receive" ELSE "none",
             self |-> done, rows |-> m.rows,
             stock |-> process_stock_update(self, gitems, st)]
       ELSE IF self.original_status = COMPLETED
       THEN [act |-> "revert", self |-> done, rows |-> m.rows,
             stock |-> revert_stock_update(self, gitems, st, 1)]
       ELSE [act |-> "none", self |-> done, rows |-> m.rows, stock |-> st]

\* GoodsReceiveNote.save: [act, self, stock, rows].
GrnSaveOutcome(self0, gitems, st, rows) ==
    LET is_new == self0.pk = 0
        m == ModelSaveGrn(self0, rows)
        self == m.self
        status_changed == self.original_status # self.status
        done == [self EXCEPT !.original_status = self.status]
    IN IF status_changed /\ self.status = COMPLETED
       THEN [act |-> "receive", self |-> done, rows |-> m.rows,
             stock |-> process_stock_update(self, gitems, st)]
       ELSE IF status_changed /\ self.original_status = COMPLETED
                /\ self.status # COMPLETED
       THEN [act |-> "revert", self |-> done, rows |-> m.rows,
             stock |-> revert_stock_update(self, gitems, st, 1)]
       ELSE IF ~status_changed /\ is_new /\ self.status = COMPLETED
       THEN [act |-> "receive", self |-> done, rows |-> m.rows,
             stock |-> process_stock_update(self, gitems, st)]
       ELSE [act |-> "none", self |-> done, rows |-> m.rows, stock |-> st]

\* GRNItem.clean
GrnItemClean(p, q, cost) == is_inventory_tracked(p) /\ q > 0 /\ cost >= 0


\* ------------------------------------------------------- customer ledger

\* CustomerLedgerEntry.__init__ of a new instance: pk is None, so the
\* originals keep their class-level zeros.
NewEntryInstance(c, ty, d, cr, sale) ==
    [NoEInst EXCEPT !.live = TRUE, !.customer = c, !.entry_type = ty,
                    !.debit_amount = d, !.credit_amount = cr, !.sale = sale]

\* CustomerLedgerEntry.__init__ of an instance loaded from its row.
LoadedEntryInstance(pk, row) ==
    [live |-> TRUE, pk |-> pk, customer |-> row.customer, entry_type |-> row.entry_type,
     debit_amount |-> row.debit_amount, credit_amount |-> row.credit_amount,
     sale |-> row.sale, original_debit_amount |-> row.debit_amount,
     original_credit_amount |-> row.credit_amount]

FreeEntryPk(rows) == CHOOSE pk \in EntryIds : ~rows[pk].present /\
                         \A q \in EntryIds : q < pk => rows[q].present

\* models.Model.save of a ledger entry: an UPDATE of the row of its pk, an
\* INSERT when the instance is new or no row has that pk. [rows, self].
ModelSaveEntry(self, rows) ==
    LET pk == IF self.pk = 0 THEN FreeEntryPk(rows) ELSE self.pk
    IN [rows |-> [rows EXCEPT ![pk] = [present |-> TRUE, customer |-> self.customer,
                                       entry_type |-> self.entry_type,
                                       debit_amount |-> self.debit_amount,
                                       credit_amount |-> self.credit_amount,
                                       sale |-> self.sale]],
        self |-> [self EXCEPT !.pk = pk]]

\* A balance change that would count the amounts of a payment the other way
\* round.
balance_change_by_type(self) ==
    LET sign == IF self.entry_type = PAYMENT THEN 0 - 1 ELSE 1
    IN IF self.pk = 0 THEN sign * (self.debit_amount - self.credit_amount)
       ELSE sign * ((self.debit_amount - self.original_debit_amount)
                    - (self.credit_amount - self.original_credit_amount))

balance_change(self) ==
    IF self.pk = 0 THEN self.debit_amount - self.credit_amount
    ELSE (self.debit_amount - self.original_debit_amount)
         - (self.credit_amount - self.original_credit_amount)

\* CustomerLedgerEntry.save: [self, rows, balance].
EntrySaveOutcome(self, rows, bal) ==
    LET change == balance_change(self)
        m == ModelSaveEntry(self, rows)
    IN [self |-> [m.self EXCEPT !.original_debit_amount = self.debit_amount,
                                !.original_credit_amount = self.credit_amount],
        rows |-> m.rows,
        balance |-> IF change # 0
                    THEN [bal EXCEPT ![self.customer] = @ + change]
                    ELSE bal]

\* A reversal with the sign of a post.
balance_reversal_as_post(self) == self.debit_amount - self.credit_amount

balance_reversal(self) == self.credit_amount - self.debit_amount

\* CustomerLedgerEntry.delete: [self, rows, balance]. Model.delete leaves the
\* instance with pk None.
EntryDeleteOutcome(self, rows, bal) ==
    LET reversal == balance_reversal(self)
    IN [self |-> [self EXCEPT !.pk = 0],
        rows |-> [rows EXCEPT ![self.pk] = NoEntry],
        balance |-> IF reversal # 0
                    THEN [bal EXCEPT ![self.customer] = @ + reversal]
                    ELSE bal]

\* ---------------------------------------------------------------- actions

\* The quantities the model follows (max_digits of the decimal fields is far
\* beyond them).
WithinBound(st) == \A key \in StockKeys : st[key].quantity \in (0 - MaxStock)..MaxStock

BalanceWithinBound(bal) == \A c \in Customers : bal[c] \in (0 - MaxBalance)..MaxBalance

IdleTxn == [pc |-> "idle", kind |-> "none", qty |-> 0, seen |-> 0]

\* txn: per transaction where it stands, the row lock holder (0: none), the
\* uncommitted quantity the holder wrote, and the summed deltas of the
\* transactions that committed.
NoTxns == [of |-> [t \in Txns |-> IdleTxn], holder |-> 0, pending |-> 0, applied |-> 0]

\* hist: per receipt what its completions added and no reversal took back,
\* per sale what its deductions removed and no reversal gave back, the kind
\* of the last stock movement of each sale, and per ledger entry the balance
\* its customer had before the entry was posted and the edits saved since,
\* the kind of the last stock movement of each receipt,
\* and per receipt how far it is through completing (1), leaving Completed
\* (2) and completing again (3) with the same lines, with the stock rows and
\* the lines of the first of these saves.
NoHist == [added |-> [g \in GrnIds |-> [key \in StockKeys |-> 0]],
           removed |-> [pk \in SaleIds |-> [key \in StockKeys |-> 0]],
           move |-> [pk \in SaleIds |-> "none"],
           posted |-> [pk \in EntryIds |-> [base |-> 0, edits |-> 0]],
           gmove |-> [g \in GrnIds |-> "none"],
           cycle |-> [g \in GrnIds |->
                        [phase |-> 0, base |-> NoStockRows,
                         lines |-> [k \in GrnItemSlots |-> NoGrnItem]]]]

\* Nothing stored, nothing loaded.
Empty ==
    /\ saleDb = [s \in SaleIds |-> NoSale]
    /\ saleItems = [k \in ItemSlots |-> NoItem]
    /\ inst = [i \in Copies |-> NoInst]
    /\ grnDb = [g \in GrnIds |-> NoGrn]
    /\ grnItems = [k \in GrnItemSlots |-> NoGrnItem]
    /\ ginst = [j \in GrnCopies |-> NoGInst]
    /\ entries = [e \in EntryIds |-> NoEntry]
    /\ balance = [c \in Customers |-> 0]
    /\ einst = [e \in EntryCopies |-> NoEInst]
    /\ txn = NoTxns
    /\ last = Other
    /\ hist = NoHist
    /\ tracked = TrackedAtStart

\* Stock rows of branch B1 as earlier receipts left them: no row, or a row
\* with a quantity in 0..MaxStock. Branch B2 holds one unit of P.
StockRows ==
    {st \in [StockKeys -> [present : BOOLEAN, quantity : 0..MaxStock]] :
        /\ \A key \in StockKeys : ~st[key].present => st[key].quantity = 0
        /\ \A key \in StockKeys : ~is_inventory_tracked(key[2]) => ~st[key].present
        /\ st[<<"B2", "P">>] = [present |-> TRUE, quantity |-> 1]
        /\ ~st[<<"B2", "Q">>].present}

\* sale = Sale(status=st, branch=b, payment_type=pt, customer=c)
SaleNew(i, st, b, pt, c) ==
    /\ ~inst[i].live
    /\ \E pk \in SaleIds : ~saleDb[pk].present
    /\ inst' = [inst EXCEPT ![i] = NewSaleInstance(st, b, pt, c)]
    /\ last' = Other
    /\ UNCHANGED <<stock, saleDb, saleItems, grnSide, ledgerSide, txn, tracked>>

\* sale = Sale.objects.get(pk=pk)
SaleLoad(i, pk) ==
    /\ saleDb[pk].present
    /\ inst[i] # LoadedSaleInstance(pk, saleDb[pk])
    /\ inst' = [inst EXCEPT ![i] = LoadedSaleInstance(pk, saleDb[pk])]
    /\ last' = Other
    /\ UNCHANGED <<stock, saleDb, saleItems, grnSide, ledgerSide, txn, tracked>>

\* sale.status = st; sale.save()
SaleSave(i, st) ==
    /\ inst[i].live
    /\ inst[i].pk = 0 => \E pk \in SaleIds : ~saleDb[pk].present
    /\ LET self == [inst[i] EXCEPT !.status = st]
           out == SaleSaveOutcome(self, saleItems, stock, saleDb, FALSE)
       IN \E r \in {out} :
          LET phase == IF /\ r.act = "deduct" /\ r.ok /\ self.pk # 0
                          /\ self.original_status = PENDING
                          /\ saleDb[self.pk].status = PENDING
                          /\ ~saleDb[self.pk].stock_deducted
                       THEN 1
                       ELSE IF /\ last.phase = 1 /\ last.copy = i /\ st = CANCELLED
                            THEN 2 ELSE 0
          IN /\ WithinBound(r.stock)
             /\ inst' = [inst EXCEPT ![i] = r.self]
             /\ stock' = r.stock
             /\ saleDb' = r.rows
             /\ last' = [Did("SaleSave", i, r.act, r.ok) EXCEPT
                            !.phase = phase,
                            !.snap = IF phase = 1 THEN stock
                                     ELSE IF phase = 2 THEN last.snap
                                     ELSE NoStockRows]
    /\ UNCHANGED <<saleItems, grnSide, ledgerSide, txn, tracked>>

\* SaleItem.save of the line in slot k, whose sale is instance i, on which the
\* caller has set status st: the line is written, then the parent recomputes
\* its totals and saves its two totals fields.
SaleItemSave(k, i, st, p, q, price, disc) ==
    /\ inst[i].live
    /\ inst[i].pk # 0
    /\ saleItems[k].present => saleItems[k].sale = inst[i].pk
    /\ LET item == [present |-> TRUE, sale |-> inst[i].pk, product |-> p, quantity |-> q,
                    unit_price_at_sale |-> price, discount_amount_item |-> disc,
                    total_price |-> (q * price) - disc]
           items == [saleItems EXCEPT ![k] = item]
           self == [inst[i] EXCEPT !.status = st]
           out == SaleSaveOutcome(self, items, stock, saleDb, TRUE)
       IN \E r \in {out} :
          /\ WithinBound(r.stock)
          /\ saleItems' = items
          /\ inst' = [inst EXCEPT ![i] = r.self]
          /\ stock' = r.stock
          /\ saleDb' = r.rows
          /\ last' = Did("SaleItemSave", i, r.act, r.ok)
    /\ UNCHANGED <<grnSide, ledgerSide, txn, tracked>>

\* SaleItem.delete (models.Model.delete): the row goes, nothing else happens.
SaleItemDelete(k) ==
    /\ saleItems[k].present
    /\ saleItems' = [saleItems EXCEPT ![k] = NoItem]
    /\ last' = Other
    /\ UNCHANGED <<stock, saleDb, inst, grnSide, ledgerSide, txn, tracked>>

\* grn = GoodsReceiveNote(status=st, branch=b)
GrnNew(j, st, b) ==
    /\ ~ginst[j].live
    /\ \E pk \in GrnIds : ~grnDb[pk].present
    /\ ginst' = [ginst EXCEPT ![j] = NewGrnInstance(st, b)]
    /\ last' = Other
    /\ UNCHANGED <<stock, saleSide, grnDb, grnItems, ledgerSide, txn, tracked>>

\* grn = GoodsReceiveNote.objects.get(pk=pk)
GrnLoad(j, pk) ==
    /\ grnDb[pk].present
    /\ ginst[j] # LoadedGrnInstance(pk, grnDb[pk])
    /\ ginst' = [ginst EXCEPT ![j] = LoadedGrnInstance(pk, grnDb[pk])]
    /\ last' = Other
    /\ UNCHANGED <<stock, saleSide, grnDb, grnItems, ledgerSide, txn, tracked>>

\* grn.status = st; grn.save()
GrnSave(j, st) ==
    /\ ginst[j].live
    /\ ginst[j].pk = 0 => \E pk \in GrnIds : ~grnDb[pk].present
    /\ LET self == [ginst[j] EXCEPT !.status = st]
           out == GrnSaveOutcome(self, grnItems, stock, grnDb)
       IN \E r \in {out} :
          /\ WithinBound(r.stock)
          /\ ginst' = [ginst EXCEPT ![j] = r.self]
          /\ stock' = r.stock
          /\ grnDb' = r.rows
          /\ last' = Did("GrnSave", j, r.act, TRUE)
    /\ UNCHANGED <<saleSide, grnItems, ledgerSide, txn, tracked>>

\* GRNItem.save of the line in slot k of the receipt of instance j.
GrnItemSave(k, j, p, q, cost) ==
    /\ ginst[j].live
    /\ ginst[j].pk # 0
    /\ grnItems[k].present => grnItems[k].grn = ginst[j].pk
    /\ GrnItemClean(p, q, cost)
    /\ LET item == [present |-> TRUE, grn |-> ginst[j].pk, product |-> p,
                    quantity_received |-> q, cost_price_per_unit |-> cost]
       IN /\ item # grnItems[k]
          /\ grnItems' = [grnItems EXCEPT ![k] = item]
    /\ last' = Other
    /\ UNCHANGED <<stock, saleSide, grnDb, ginst, ledgerSide, txn, tracked>>

\* entry = CustomerLedgerEntry(customer=c, entry_type=ty, debit_amount=d,
\*                             credit_amount=cr)
EntryNew(e, c, ty, d, cr) ==
    /\ ~einst[e].live
    /\ \E pk \in EntryIds : ~entries[pk].present
    /\ einst' = [einst EXCEPT ![e] = NewEntryInstance(c, ty, d, cr, 0)]
    /\ last' = Other
    /\ UNCHANGED <<stock, saleSide, grnSide, entries, balance, txn, tracked>>

\* entry = CustomerLedgerEntry.objects.get(pk=pk)
EntryLoad(e, pk) ==
    /\ entries[pk].present
    /\ einst[e] # LoadedEntryInstance(pk, entries[pk])
    /\ einst' = [einst EXCEPT ![e] = LoadedEntryInstance(pk, entries[pk])]
    /\ last' = Other
    /\ UNCHANGED <<stock, saleSide, grnSide, entries, balance, txn, tracked>>

\* entry.customer = c; entry.debit_amount = d; entry.credit_amount = cr;
\* entry.save()
EntrySave(e, c, d, cr) ==
    /\ einst[e].live
    /\ einst[e].pk = 0 => \E pk \in EntryIds : ~entries[pk].present
    /\ LET self == [einst[e] EXCEPT !.customer = c, !.debit_amount = d,
                                    !.credit_amount = cr]
           out == EntrySaveOutcome(self, entries, balance)
       IN \E r \in {out} :
          /\ BalanceWithinBound(r.balance)
          /\ einst' = [einst EXCEPT ![e] = r.self]
          /\ entries' = r.rows
          /\ balance' = r.balance
          /\ last' = Did("EntrySave", e, IF einst[e].pk = 0 THEN "post" ELSE "edit", TRUE)
    /\ UNCHANGED <<stock, saleSide, grnSide, txn, tracked>>

\* entry.delete()
EntryDelete(e) ==
    /\ einst[e].live
    /\ einst[e].pk # 0
    /\ LET out == EntryDeleteOutcome(einst[e], entries, balance)
       IN \E r \in {out} :
          /\ BalanceWithinBound(r.balance)
          /\ einst' = [einst EXCEPT ![e] = r.self]
          /\ entries' = r.rows
          /\ balance' = r.balance
          /\ last' = Did("EntryDelete", e, "delete", TRUE)
    /\ UNCHANGED <<stock, saleSide, grnSide, txn, tracked>>

\* ---------------------------------------------------------- specification
\* Spec: one sale of branch B1, saved from one in-memory instance, with lines
\* of P, Q and SVC, against the stock rows earlier receipts left.

Init == Empty /\ stock \in StockRows

Next ==
    \/ \E st \in {PENDING, COMPLETED} :
          SaleNew(1, st, "B1", CASH, NoCustomer) /\ UNCHANGED hist
    \/ \E pk \in SaleIds : SaleLoad(1, pk) /\ UNCHANGED hist
    \/ \E st \in SaleStatus : SaleSave(1, st) /\ UNCHANGED hist
    \/ \E k \in ItemSlots, p \in Products, q \in 0..MaxQty :
          SaleItemSave(k, 1, inst[1].status, p, q, 1, 0) /\ UNCHANGED hist
    \/ \E k \in ItemSlots : SaleItemDelete(k) /\ UNCHANGED hist

Spec == Init /\ [][Next]_vars

\* ------------------------------------------------- properties of Sale.save

\* The summed quantity of the lines of sale pk for product p, from slot k on.
RECURSIVE LineQty(_, _, _, _)
LineQty(items, pk, p, k) ==
    IF k > MaxItems THEN 0
    ELSE (IF items[k].present /\ items[k].sale = pk /\ items[k].product = p
          THEN items[k].quantity ELSE 0)
         + LineQty(items, pk, p, k + 1)

\* What the lines of sale pk at branch b move on stock row key.
Moved(items, pk, b, key) ==
    IF key[1] = b /\ is_inventory_tracked(key[2]) THEN LineQty(items, pk, key[2], 1) ELSE 0

\* Some tracked line of sale pk asks for more than its stock row holds in st,
\* or asks for something where no row exists.
ShortLine(items, pk, b, st) ==
    \E k \in ItemSlots :
        /\ items[k].present /\ items[k].sale = pk
        /\ is_inventory_tracked(items[k].product)
        /\ IF st[<<b, items[k].product>>].present
           THEN st[<<b, items[k].product>>].quantity < items[k].quantity
           ELSE items[k].quantity > 0

\* The step just taken ran Sale.save (directly or from SaleItem.save).
SaleSaved == last'.op \in {"SaleSave", "SaleItemSave"}

\* C2: stock deduction is all-or-nothing across the lines of a sale. A save
\* that attempts the deduction while some tracked line is short of stock (or
\* has no stock row for a positive quantity) fails, and a save that fails
\* leaves every stock row, those of the lines walked before the failing one
\* included, exactly as it was before the save.
C2_AllOrNothing ==
    [][(SaleSaved /\ last'.act = "deduct") =>
          /\ ShortLine(saleItems', inst[last'.copy].pk, inst[last'.copy].branch, stock)
                => ~last'.ok
          /\ ~last'.ok => stock' = stock]_vars

\* A save has just failed on its second line after its first line, of another
\* tracked product, found enough stock.
C2_Witness ==
    /\ last.op = "SaleSave" /\ last.act = "deduct" /\ ~last.ok
    /\ saleItems[1].present /\ saleItems[2].present
    /\ saleItems[1].product = "P" /\ saleItems[2].product = "Q"
    /\ saleItems[1].quantity > 0
    /\ stock[<<"B1", "P">>].present
    /\ stock[<<"B1", "P">>].quantity >= saleItems[1].quantity
    /\ stock[<<"B1", "Q">>].quantity < saleItems[2].quantity

\* C3: a sale save that fails with insufficient stock persists nothing of the
\* sale: every sale row (status, sub_total, grand_total, stock_deducted) is
\* what it was before the save, and stock_deducted is false afterwards, on the
\* instance and on its row.
C3_FailedSaveNotPersisted ==
    [][(SaleSaved /\ ~last'.ok) =>
          /\ saleDb' = saleDb
          /\ ~inst'[last'.copy].stock_deducted
          /\ ~saleDb'[inst'[last'.copy].pk].stock_deducted]_vars

\* A save into Completed has just failed on a sale whose row is Pending with a
\* sub_total of its lines.
C3_Witness ==
    /\ last.op = "SaleSave" /\ ~last.ok
    /\ inst[1].status = COMPLETED
    /\ saleDb[inst[1].pk].status = PENDING
    /\ saleDb[inst[1].pk].sub_total > 0
    /\ ~saleDb[inst[1].pk].stock_deducted

\* C6 as stated: every successful save that sets the status to Completed while
\* stock_deducted is false, for a new sale created Completed as for an existing
\* sale entering Completed, takes the quantity of every tracked line off the
\* stock and leaves stock_deducted true.
C6_EveryCompletionDeducts ==
    [][(/\ last'.op = "SaleSave" /\ last'.ok
        /\ inst'[last'.copy].status = COMPLETED
        /\ ~inst[last'.copy].stock_deducted
        /\ \/ inst[last'.copy].pk = 0
           \/ inst[last'.copy].original_status # COMPLETED) =>
          /\ inst'[last'.copy].stock_deducted
          /\ \A key \in StockKeys :
                stock'[key].quantity = stock[key].quantity
                    - Moved(saleItems, inst[last'.copy].pk, inst[last'.copy].branch, key)]_vars

\* C7: a sale save restocks if and only if the previous status was Completed,
\* stock_deducted is true and the new status is not Completed. When it does,
\* every stock row gains the summed quantity of the sale's tracked lines and
\* stock_deducted is cleared; when it does not, no stock row is created and no
\* quantity grows. A save that leaves Completed with stock_deducted false, and
\* a save whose status equals the previous one, leave the stock rows as they
\* were.
C7_RestockIff ==
    [][SaleSaved =>
          LET before == inst[last'.copy]
              after == inst'[last'.copy]
              due == /\ before.original_status = COMPLETED
                     /\ before.stock_deducted
                     /\ after.status # COMPLETED
          IN /\ due =>
                   /\ last'.ok
                   /\ ~after.stock_deducted
                   /\ \A key \in StockKeys :
                         stock'[key].quantity = stock[key].quantity
                             + Moved(saleItems', before.pk, before.branch, key)
                   /\ \A key \in StockKeys :
                         Moved(saleItems', before.pk, before.branch, key) > 0
                             => stock'[key].present
             /\ ~due =>
                   \A key \in StockKeys :
                       /\ stock'[key].quantity <= stock[key].quantity
                       /\ stock'[key].present => stock[key].present
             /\ (\/ before.original_status = after.status
                 \/ /\ before.original_status = COMPLETED
                    /\ ~before.stock_deducted
                    /\ after.status # COMPLETED) => stock' = stock]_vars

\* A Completed sale with a tracked line has just been saved back to Pending
\* and restocked.
C7_Witness ==
    /\ last.op = "SaleSave" /\ last.act = "restock"
    /\ inst[1].status = PENDING
    /\ ~inst[1].stock_deducted
    /\ \E k \in ItemSlots :
          /\ saleItems[k].present /\ saleItems[k].quantity > 0
          /\ is_inventory_tracked(saleItems[k].product)

\* C8: a Pending sale saved as Completed with enough stock has stock_deducted
\* true; saved as Cancelled right after, every stock quantity is back at its
\* value before the completion and stock_deducted is false.
C8_CompleteThenCancel ==
    /\ last.phase = 1 =>
          /\ inst[last.copy].stock_deducted
          /\ saleDb[inst[last.copy].pk].stock_deducted
    /\ last.phase = 2 =>
          /\ \A key \in StockKeys : stock[key].quantity = last.snap[key].quantity
          /\ ~inst[last.copy].stock_deducted
          /\ ~saleDb[inst[last.copy].pk].stock_deducted

\* The cancellation has just followed the completion of a sale with lines of
\* both tracked products.
C8_Witness ==
    /\ last.phase = 2
    /\ inst[1].status = CANCELLED
    /\ \E k \in ItemSlots :
          saleItems[k].present /\ saleItems[k].product = "P" /\ saleItems[k].quantity > 0
    /\ \E k \in ItemSlots :
          saleItems[k].present /\ saleItems[k].product = "Q" /\ saleItems[k].quantity > 0

\* ----------------------------------------------- stock movement bookkeeping

\* The summed quantity received of the lines of receipt pk for product p.
RECURSIVE GrnLineQty(_, _, _, _)
GrnLineQty(gitems, pk, p, k) ==
    IF k > MaxGrnItems THEN 0
    ELSE (IF gitems[k].present /\ gitems[k].grn = pk /\ gitems[k].product = p
          THEN gitems[k].quantity_received ELSE 0)
         + GrnLineQty(gitems, pk, p, k + 1)

GrnMoved(gitems, pk, b, key) ==
    IF key[1] = b /\ is_inventory_tracked(key[2]) THEN GrnLineQty(gitems, pk, key[2], 1) ELSE 0

\* hist after the step just taken: a receipt completion adds its line
\* quantities to what the receipt has added, a receipt reversal takes back
\* what the receipt added, a sale deduction adds its line quantities to what
\* the sale has removed, a sale reversal gives back what the sale removed.
HistAfter ==
    IF last'.op = "GrnSave" /\ last'.act = "receive" /\ last'.ok
    THEN LET g == ginst'[last'.copy]
         IN [hist EXCEPT !.added[g.pk] =
                [key \in StockKeys |-> @[key] + GrnMoved(grnItems', g.pk, g.branch, key)]]
    ELSE IF last'.op = "GrnSave" /\ last'.act = "revert" /\ last'.ok
    THEN [hist EXCEPT !.added[ginst'[last'.copy].pk] = [key \in StockKeys |-> 0]]
    ELSE IF SaleSaved /\ last'.act = "deduct" /\ last'.ok /\ inst[last'.copy].pk # 0
    THEN LET self == inst'[last'.copy]
         IN [hist EXCEPT !.removed[self.pk] =
                [key \in StockKeys |-> @[key] + Moved(saleItems', self.pk, self.branch, key)],
                         !.move[self.pk] = "deduct"]
    ELSE IF SaleSaved /\ last'.act = "restock" /\ last'.ok
    THEN [hist EXCEPT !.removed[inst'[last'.copy].pk] = [key \in StockKeys |-> 0],
                      !.move[inst'[last'.copy].pk] = "restock"]
    ELSE hist

\* The bookkeeping is followed while no document's outstanding quantity
\* exceeds MaxMoved.
Tracked ==
    /\ hist' = HistAfter
    /\ \A key \in StockKeys :
          /\ \A g \in GrnIds : hist'.added[g][key] <= MaxMoved
          /\ \A pk \in SaleIds : hist'.removed[pk][key] <= MaxMoved

RECURSIVE SumAdded(_, _, _)
SumAdded(h, key, g) ==
    IF g > MaxGrns THEN 0 ELSE h.added[g][key] + SumAdded(h, key, g + 1)

RECURSIVE SumRemoved(_, _, _)
SumRemoved(h, key, pk) ==
    IF pk > MaxSales THEN 0 ELSE h.removed[pk][key] + SumRemoved(h, key, pk + 1)

\* SpecStock: one receipt and one sale of branch B1, both with lines of product
\* P, saved from one in-memory instance each, starting without stock rows.
InitStock == Empty /\ stock = NoStockRows

NextStock ==
    \/ \E st \in {PENDING, COMPLETED} : GrnNew(1, st, "B1") /\ Tracked
    \/ \E st \in GRNStatus : GrnSave(1, st) /\ Tracked
    \/ \E q \in 1..MaxQty : GrnItemSave(1, 1, "P", q, 0) /\ Tracked
    \/ \E st \in {PENDING, COMPLETED} :
          SaleNew(1, st, "B1", CASH, NoCustomer) /\ Tracked
    \/ \E pk \in SaleIds : SaleLoad(1, pk) /\ Tracked
    \/ \E st \in {PENDING, COMPLETED, CANCELLED} : SaleSave(1, st) /\ Tracked
    \/ \E q \in 1..MaxQty :
          SaleItemSave(1, 1, inst[1].status, "P", q, 1, 0) /\ Tracked
    \/ SaleItemDelete(1) /\ Tracked

SpecStock == InitStock /\ [][NextStock]_vars

\* C1 as stated: the stored quantity of every (branch, product) equals what
\* receipt completions added and receipt reversals did not take back, minus
\* what sale deductions removed and sale reversals did not give back.
C1_StockConservation ==
    \A key \in StockKeys :
        stock[key].quantity = SumAdded(hist, key, 1) - SumRemoved(hist, key, 1)

\* SpecCopies: one sale of branch B1 with a line of product P, loaded into two
\* in-memory instances that save in any order, against MaxStock units of P.
InitCopies ==
    /\ Empty
    /\ stock = [NoStockRows EXCEPT ![<<"B1", "P">>] =
                   [present |-> TRUE, quantity |-> MaxStock]]

NextCopies ==
    \/ \E i \in Copies : SaleNew(i, PENDING, "B1", CASH, NoCustomer) /\ Tracked
    \/ \E i \in Copies, pk \in SaleIds : SaleLoad(i, pk) /\ Tracked
    \/ \E i \in Copies, st \in {PENDING, COMPLETED, CANCELLED} : SaleSave(i, st) /\ Tracked
    \/ \E i \in Copies, q \in 1..MaxQty :
          SaleItemSave(1, i, inst[i].status, "P", q, 1, 0) /\ Tracked

SpecCopies == InitCopies /\ [][NextCopies]_vars

\* C9 as stated: for each sale, over any order of saves from its in-memory
\* copies, a stock deduction follows no deduction of that sale without a
\* reversal in between, and a reversal follows a deduction of that sale
\* directly.
C9_MovementsAlternate ==
    [][SaleSaved =>
          /\ (last'.act = "deduct" /\ last'.ok /\ inst[last'.copy].pk # 0)
                => hist.move[inst[last'.copy].pk] # "deduct"
          /\ last'.act = "restock"
                => hist.move[inst[last'.copy].pk] = "deduct"]_vars

\* SpecLedger: ledger entries of two customers, each row loaded into up to
\* MaxEntryCopies in-memory instances that post, edit and delete in any order.
InitLedger == Empty /\ stock = NoStockRows

NextLedger ==
    \/ \E e \in EntryCopies, c \in Customers, ty \in {INVOICE, PAYMENT} :
          EntryNew(e, c, ty, 0, 0) /\ UNCHANGED hist
    \/ \E e \in EntryCopies, pk \in EntryIds : EntryLoad(e, pk) /\ UNCHANGED hist
    \/ \E e \in EntryCopies, c \in Customers, d \in 0..MaxAmount, cr \in 0..MaxAmount :
          EntrySave(e, c, d, cr) /\ UNCHANGED hist
    \/ \E e \in EntryCopies : EntryDelete(e) /\ UNCHANGED hist

SpecLedger == InitLedger /\ [][NextLedger]_vars

\* Debits minus credits over the persisted entries of customer c, from row e on.
RECURSIVE NetOfEntries(_, _, _)
NetOfEntries(rows, c, e) ==
    IF e > MaxEntries THEN 0
    ELSE (IF rows[e].present /\ rows[e].customer = c
          THEN rows[e].debit_amount - rows[e].credit_amount ELSE 0)
         + NetOfEntries(rows, c, e + 1)

\* C4 as stated: in every reachable state the stored balance of every customer
\* equals the sum of debit_amount minus the sum of credit_amount over that
\* customer's persisted ledger entries.
C4_LedgerBalance ==
    \A c \in Customers : balance[c] = NetOfEntries(entries, c, 1)

\* SpecCredit: one sale of branch B1 on account of customer C1, with lines of
\* P, saved from one in-memory instance, against the stock rows earlier
\* receipts left.
InitCredit == Empty /\ stock \in StockRows

NextCredit ==
    \/ \E st \in {PENDING, COMPLETED} :
          SaleNew(1, st, "B1", ON_ACCOUNT, "C1") /\ UNCHANGED hist
    \/ \E pk \in SaleIds : SaleLoad(1, pk) /\ UNCHANGED hist
    \/ \E st \in SaleStatus : SaleSave(1, st) /\ UNCHANGED hist
    \/ \E k \in ItemSlots, q \in 0..MaxQty :
          SaleItemSave(k, 1, inst[1].status, "P", q, 1, 0) /\ UNCHANGED hist

SpecCredit == InitCredit /\ [][NextCredit]_vars

\* The Invoice entries stored for sale pk against customer c with debit d.
InvoicesOf(rows, pk, c, d) ==
    {e \in EntryIds : /\ rows[e].present /\ rows[e].entry_type = INVOICE
                      /\ rows[e].sale = pk /\ rows[e].customer = c
                      /\ rows[e].debit_amount = d}

\* C5 as stated: when a sale on account with a customer set is saved into
\* Completed and its stock deduction succeeds, the same save posts exactly one
\* Invoice entry with debit grand_total against that customer and the
\* customer's balance grows by grand_total.
C5_InvoicePosted ==
    [][(/\ last'.op = "SaleSave" /\ last'.act = "deduct" /\ last'.ok
        /\ inst[last'.copy].pk # 0
        /\ inst'[last'.copy].payment_type = ON_ACCOUNT
        /\ inst'[last'.copy].customer # NoCustomer) =>
          LET self == inst'[last'.copy]
          IN /\ Cardinality(InvoicesOf(entries', self.pk, self.customer, self.grand_total))
                   = Cardinality(InvoicesOf(entries, self.pk, self.customer,
                                            self.grand_total)) + 1
             /\ balance'[self.customer] = balance[self.customer] + self.grand_total]_vars

\* --------------------------------------------- concurrent stock movements
\* Each save that moves stock runs its loop inside transaction.atomic(): it
\* reads the stock row with a plain get (no select_for_update), computes the
\* new quantity in memory, writes it with save (an UPDATE, which waits for the
\* row lock of an uncommitted writer), and commits when the block ends. Reads
\* see the last committed row (READ COMMITTED). The documents have one line of
\* product P at branch B1.

ConcKey == <<"B1", "P">>

MovementKinds == {"deduct", "restock", "receive", "revert"}

Delta(kind, q) == IF kind \in {"deduct", "revert"} THEN 0 - q ELSE q

\* with transaction.atomic(): of a save whose line has quantity q
StockTxnBegin(t, kind, q) ==
    /\ txn.of[t].pc = "idle"
    /\ txn' = [txn EXCEPT !.of[t] = [pc |-> "get", kind |-> kind, qty |-> q, seen |-> 0]]
    /\ last' = Did("StockTxnBegin", t, kind, TRUE)
    /\ UNCHANGED <<stock, saleSide, grnSide, ledgerSide, tracked>>

\* stock_item = InventoryStock.objects.get(branch=..., product=...), and for a
\* deduction the comparison with the line quantity: a ValidationError leaves
\* the block and rolls the transaction back.
StockGet(t) ==
    /\ txn.of[t].pc = "get"
    /\ stock[ConcKey].present
    /\ LET seen == stock[ConcKey].quantity
           short == txn.of[t].kind = "deduct" /\ seen < txn.of[t].qty
       IN /\ txn' = [txn EXCEPT !.of[t] = IF short THEN IdleTxn
                                          ELSE [@ EXCEPT !.pc = "save", !.seen = seen]]
          /\ last' = Did("StockGet", t, txn.of[t].kind, ~short)
    /\ UNCHANGED <<stock, saleSide, grnSide, ledgerSide, tracked>>

\* stock_item.quantity -= q (or += q); stock_item.save()
StockItemSave(t) ==
    /\ txn.of[t].pc = "save"
    /\ txn.holder = 0
    /\ txn' = [txn EXCEPT !.of[t].pc = "commit", !.holder = t,
                          !.pending = txn.of[t].seen + Delta(txn.of[t].kind, txn.of[t].qty)]
    /\ last' = Did("StockItemSave", t, txn.of[t].kind, TRUE)
    /\ UNCHANGED <<stock, saleSide, grnSide, ledgerSide, tracked>>

\* the atomic block ends normally: COMMIT
StockTxnCommit(t) ==
    /\ txn.of[t].pc = "commit"
    /\ txn.holder = t
    /\ LET st == [stock EXCEPT ![ConcKey].quantity = txn.pending]
           applied == txn.applied + Delta(txn.of[t].kind, txn.of[t].qty)
       IN /\ WithinBound(st)
          /\ applied \in (0 - MaxMoved)..MaxMoved
          /\ stock' = st
          /\ txn' = [txn EXCEPT !.of[t] = IdleTxn, !.holder = 0, !.pending = 0,
                                !.applied = applied]
    /\ last' = Did("StockTxnCommit", t, txn.of[t].kind, TRUE)
    /\ UNCHANGED <<saleSide, grnSide, ledgerSide, tracked>>

\* SpecConc: MaxTxns transactions moving the stock of P at B1, which starts at
\* MaxStock units.
InitConc ==
    /\ Empty
    /\ stock = [NoStockRows EXCEPT ![ConcKey] = [present |-> TRUE, quantity |-> MaxStock]]

NextConc ==
    \/ \E t \in Txns, kind \in MovementKinds, q \in 1..MaxQty :
          StockTxnBegin(t, kind, q) /\ UNCHANGED hist
    \/ \E t \in Txns : StockGet(t) /\ UNCHANGED hist
    \/ \E t \in Txns : StockItemSave(t) /\ UNCHANGED hist
    \/ \E t \in Txns : StockTxnCommit(t) /\ UNCHANGED hist

SpecConc == InitConc /\ [][NextConc]_vars

\* C10 as stated: stock movements in concurrent transactions on one (branch,
\* product) lose no update: the committed quantity is the quantity before plus
\* the deltas of every transaction that committed, and a transaction that
\* commits wrote on top of the level it had read.
C10_NoLostUpdate ==
    /\ stock[ConcKey].quantity = MaxStock + txn.applied
    /\ \A t \in Txns :
          txn.of[t].pc = "commit" => txn.of[t].seen = stock[ConcKey].quantity

\* --------------------------------------------- concurrent ledger operations
\* CustomerLedgerEntry.save and .delete run inside transaction.atomic(): the
\* balance change is computed in memory, the entry row is written (or
\* deleted), then, when the change is not zero, the customer row is read with
\* select_for_update (which waits while another transaction holds the row
\* lock, and holds it until commit), the new balance is written, and the block
\* commits. The operations are on distinct entries of customer C1.

ConcCustomer == "C1"

LedgerKinds == {"post", "edit", "delete"}

\* A row lock nobody looks at.
RowLockIgnored(holder) == TRUE

\* select_for_update: the row lock can be taken when no transaction holds it.
RowLockFree(holder) == holder = 0

\* with transaction.atomic(): ...; super().save() / super().delete()
LedgerTxnBegin(t, kind, change) ==
    /\ txn.of[t].pc = "idle"
    /\ txn' = [txn EXCEPT !.of[t] = [pc |-> IF change # 0 THEN "lock" ELSE "commit",
                                     kind |-> kind, qty |-> change, seen |-> 0]]
    /\ last' = Did("LedgerTxnBegin", t, kind, TRUE)
    /\ UNCHANGED <<stock, saleSide, grnSide, ledgerSide, tracked>>

\* customer_to_update = Customer.objects.select_for_update().get(pk=...)
CustomerSelectForUpdate(t) ==
    /\ txn.of[t].pc = "lock"
    /\ RowLockFree(txn.holder)
    /\ txn' = [txn EXCEPT !.of[t].pc = "save", !.of[t].seen = balance[ConcCustomer],
                          !.holder = t]
    /\ last' = Did("CustomerSelectForUpdate", t, txn.of[t].kind, TRUE)
    /\ UNCHANGED <<stock, saleSide, grnSide, ledgerSide, tracked>>

\* customer_to_update.current_balance = current + change;
\* customer_to_update.save(update_fields=['current_balance'])
CustomerBalanceSave(t) ==
    /\ txn.of[t].pc = "save"
    /\ txn' = [txn EXCEPT !.of[t].pc = "commit",
                          !.of[t].seen = txn.of[t].seen + txn.of[t].qty]
    /\ last' = Did("CustomerBalanceSave", t, txn.of[t].kind, TRUE)
    /\ UNCHANGED <<stock, saleSide, grnSide, ledgerSide, tracked>>

\* the atomic block ends normally: COMMIT, the row lock is released
LedgerTxnCommit(t) ==
    /\ txn.of[t].pc = "commit"
    /\ LET bal == IF txn.of[t].qty # 0
                  THEN [balance EXCEPT ![ConcCustomer] = txn.of[t].seen]
                  ELSE balance
           applied == txn.applied + txn.of[t].qty
       IN /\ applied \in (0 - MaxBalance)..MaxBalance
          /\ BalanceWithinBound(bal)
          /\ balance' = bal
          /\ txn' = [txn EXCEPT !.of[t] = IdleTxn,
                                !.holder = IF txn.holder = t THEN 0 ELSE txn.holder,
                                !.applied = applied]
    /\ last' = Did("LedgerTxnCommit", t, txn.of[t].kind, TRUE)
    /\ UNCHANGED <<stock, saleSide, grnSide, entries, einst, tracked>>

\* SpecLedgerConc: MaxTxns transactions posting, editing and deleting entries
\* of customer C1, whose balance starts at 0.
InitLedgerConc == Empty /\ stock = NoStockRows

NextLedgerConc ==
    \/ \E t \in Txns, kind \in LedgerKinds, change \in (0 - MaxAmount)..MaxAmount :
          LedgerTxnBegin(t, kind, change) /\ UNCHANGED hist
    \/ \E t \in Txns : CustomerSelectForUpdate(t) /\ UNCHANGED hist
    \/ \E t \in Txns : CustomerBalanceSave(t) /\ UNCHANGED hist
    \/ \E t \in Txns : LedgerTxnCommit(t) /\ UNCHANGED hist

SpecLedgerConc == InitLedgerConc /\ [][NextLedgerConc]_vars

\* C11: ledger operations in concurrent transactions on one customer lose no
\* update: a transaction that has read the balance holds the customer's row
\* lock and read the committed balance, and the committed balance is the
\* starting balance plus the changes of every transaction that committed.
C11_NoLostLedgerUpdate ==
    /\ balance[ConcCustomer] = txn.applied
    /\ \A t \in Txns :
          txn.of[t].pc = "save" =>
              txn.holder = t /\ txn.of[t].seen = balance[ConcCustomer]

\* One transaction holds the lock with its new balance written while another
\* waits for the lock, after an earlier transaction committed a change.
C11_Witness ==
    /\ txn.applied # 0
    /\ \E t1 \in Txns, t2 \in Txns :
          /\ t1 # t2
          /\ txn.of[t1].pc = "commit" /\ txn.holder = t1
          /\ txn.of[t2].pc = "lock"

\* C12 as stated: in every reachable state no stock row holds a negative
\* quantity, whatever sale saves and receipt saves came before.
C12_StockNeverNegative ==
    \A key \in StockKeys : stock[key].quantity >= 0

\* C13 as stated: after every mutation of a sale's lines (a line added or
\* edited by SaleItem.save, a line deleted), the sub_total stored for the sale
\* equals the sum of total_price over its stored lines.
C13_SubTotalFollowsLines ==
    [][/\ last'.op = "SaleItemSave" =>
             saleDb'[inst[last'.copy].pk].sub_total
                 = SumTotalPrice(saleItems', inst[last'.copy].pk, 1)
       /\ \A k \in ItemSlots :
             (saleItems[k].present /\ ~saleItems'[k].present) =>
                 saleDb'[saleItems[k].sale].sub_total
                     = SumTotalPrice(saleItems', saleItems[k].sale, 1)]_vars

\* sale.discount_amount = disc; sale.tax_amount = tax; sale.save()
SaleAmountsSave(i, disc, tax) ==
    /\ inst[i].live
    /\ inst[i].pk = 0 => \E pk \in SaleIds : ~saleDb[pk].present
    /\ LET self == [inst[i] EXCEPT !.discount_amount = disc, !.tax_amount = tax]
           out == SaleSaveOutcome(self, saleItems, stock, saleDb, FALSE)
       IN \E r \in {out} :
          /\ WithinBound(r.stock)
          /\ inst' = [inst EXCEPT ![i] = r.self]
          /\ stock' = r.stock
          /\ saleDb' = r.rows
          /\ last' = Did("SaleSave", i, r.act, r.ok)
    /\ UNCHANGED <<saleItems, grnSide, ledgerSide, txn, tracked>>

\* SpecTotals: one sale of branch B1 with lines of P, its discount and tax
\* edited and its lines saved from MaxCopies in-memory instances.
InitTotals == Empty /\ stock = NoStockRows

NextTotals ==
    \/ \E i \in Copies : SaleNew(i, PENDING, "B1", CASH, NoCustomer) /\ UNCHANGED hist
    \/ \E i \in Copies, pk \in SaleIds : SaleLoad(i, pk) /\ UNCHANGED hist
    \/ \E i \in Copies, disc \in 0..MaxAmount, tax \in 0..MaxAmount :
          SaleAmountsSave(i, disc, tax) /\ UNCHANGED hist
    \/ \E i \in Copies, k \in ItemSlots, q \in 1..MaxQty :
          SaleItemSave(k, i, inst[i].status, "P", q, 1, 0) /\ UNCHANGED hist

SpecTotals == InitTotals /\ [][NextTotals]_vars

\* C14 as stated: every stored sale has grand_total = (sub_total -
\* discount_amount) + tax_amount over its stored fields, also after a line
\* save that stores only the two totals of an in-memory copy of the sale.
C14_GrandTotalFormula ==
    \A pk \in SaleIds :
        saleDb[pk].present =>
            saleDb[pk].grand_total
                = (saleDb[pk].sub_total - saleDb[pk].discount_amount) + saleDb[pk].tax_amount

\* SpecEntry: one ledger entry posted, edited in its amounts and deleted
\* through one in-memory instance, with amounts up to MaxEntryAmount, for a
\* customer whose balance earlier entries left anywhere in
\* -MaxAmount..MaxAmount.
MaxEdits == 2
MaxEntryAmount == 2

InitEntry ==
    /\ saleDb = [s \in SaleIds |-> NoSale]
    /\ saleItems = [k \in ItemSlots |-> NoItem]
    /\ inst = [i \in Copies |-> NoInst]
    /\ grnDb = [g \in GrnIds |-> NoGrn]
    /\ grnItems = [k \in GrnItemSlots |-> NoGrnItem]
    /\ ginst = [j \in GrnCopies |-> NoGInst]
    /\ entries = [e \in EntryIds |-> NoEntry]
    /\ balance \in [Customers -> (0 - MaxAmount)..MaxAmount]
    /\ einst = [e \in EntryCopies |-> NoEInst]
    /\ txn = NoTxns
    /\ last = Other
    /\ hist = NoHist
    /\ tracked = TrackedAtStart
    /\ stock = NoStockRows

\* hist after a ledger step: a post records the balance it found, an edit
\* counts, up to MaxEdits edits of one entry.
PostedAfter ==
    IF last'.op = "EntrySave" /\ last'.act = "post"
    THEN [hist EXCEPT !.posted[einst'[last'.copy].pk] =
             [base |-> balance[einst'[last'.copy].customer], edits |-> 0]]
    ELSE IF last'.op = "EntrySave" /\ last'.act = "edit"
    THEN [hist EXCEPT !.posted[einst'[last'.copy].pk].edits = @ + 1]
    ELSE hist

EntryTracked ==
    /\ hist' = PostedAfter
    /\ \A pk \in EntryIds : hist'.posted[pk].edits <= MaxEdits

NextEntry ==
    \/ \E c \in Customers, ty \in {INVOICE, PAYMENT} :
          EntryNew(1, c, ty, 0, 0) /\ EntryTracked
    \/ \E d \in 0..MaxEntryAmount, cr \in 0..MaxEntryAmount :
          EntrySave(1, einst[1].customer, d, cr) /\ EntryTracked
    \/ EntryDelete(1) /\ EntryTracked

SpecEntry == InitEntry /\ [][NextEntry]_vars

\* C15: the delete of an entry that was posted and then edited in its amounts
\* any number of times leaves its customer's balance at the value it had
\* before the post.
C15_PostEditDeleteRestores ==
    [][last'.op = "EntryDelete"
          => balance'[einst[last'.copy].customer]
                = hist.posted[einst[last'.copy].pk].base]_vars

\* An entry with a net amount was deleted after MaxEdits edits, for a customer
\* whose balance before the post was not zero.
C15_Witness ==
    /\ last.op = "EntryDelete"
    /\ \E pk \in EntryIds :
          /\ hist.posted[pk].edits = MaxEdits
          /\ ~entries[pk].present
          /\ hist.posted[pk].base # 0
    /\ balance_reversal(einst[last.copy]) # 0

\* entry.save() whose balance update raises (the locked read or the write of
\* the customer row, lines 103-107): the exception leaves transaction.atomic(),
\* the instance keeps the pk Model.save gave it and its previous amounts
\* snapshot.
EntrySaveFails(e, c, d, cr) ==
    /\ einst[e].live
    /\ einst[e].pk = 0 => \E pk \in EntryIds : ~entries[pk].present
    /\ LET self == [einst[e] EXCEPT !.customer = c, !.debit_amount = d,
                                    !.credit_amount = cr]
           m == ModelSaveEntry(self, entries)
       IN /\ balance_change(self) # 0
          /\ einst' = [einst EXCEPT ![e] = m.self]
          /\ entries' = Atomic(entries, m.rows, FALSE)
          /\ balance' = balance
          /\ last' = Did("EntrySave", e, IF einst[e].pk = 0 THEN "post" ELSE "edit", FALSE)
    /\ UNCHANGED <<stock, saleSide, grnSide, txn, tracked>>

\* entry.delete() whose balance update raises (lines 123-126): Model.delete
\* has cleared the instance's pk, the exception leaves transaction.atomic().
EntryDeleteFails(e) ==
    /\ einst[e].live
    /\ einst[e].pk # 0
    /\ balance_reversal(einst[e]) # 0
    /\ einst' = [einst EXCEPT ![e].pk = 0]
    /\ entries' = Atomic(entries, [entries EXCEPT ![einst[e].pk] = NoEntry], FALSE)
    /\ balance' = balance
    /\ last' = Did("EntryDelete", e, "delete", FALSE)
    /\ UNCHANGED <<stock, saleSide, grnSide, txn, tracked>>

\* SpecLedgerFail: one ledger entry posted, edited, reloaded and deleted
\* through one in-memory instance, every balance update free to fail.
InitLedgerFail == Empty /\ stock = NoStockRows

NextLedgerFail ==
    \/ \E c \in Customers, ty \in {INVOICE, PAYMENT} :
          EntryNew(1, c, ty, 0, 0) /\ UNCHANGED hist
    \/ \E pk \in EntryIds : EntryLoad(1, pk) /\ UNCHANGED hist
    \/ \E d \in 0..MaxEntryAmount, cr \in 0..MaxEntryAmount :
          EntrySave(1, einst[1].customer, d, cr) /\ UNCHANGED hist
    \/ \E d \in 0..MaxEntryAmount, cr \in 0..MaxEntryAmount :
          EntrySaveFails(1, einst[1].customer, d, cr) /\ UNCHANGED hist
    \/ EntryDelete(1) /\ UNCHANGED hist
    \/ EntryDeleteFails(1) /\ UNCHANGED hist

SpecLedgerFail == InitLedgerFail /\ [][NextLedgerFail]_vars

\* C16: a post, edit or delete whose balance update fails leaves the stored
\* entries and every balance as they were; one that succeeds writes or
\* deletes the entry row and moves the balance by the change it computed.
C16_EntryAndBalanceTogether ==
    [][last'.op \in {"EntrySave", "EntryDelete"}
          => IF last'.ok
             THEN LET self == einst[last'.copy]
                      new == einst'[last'.copy]
                      moved == balance'[self.customer] - balance[self.customer]
                  IN IF last'.op = "EntryDelete"
                     THEN /\ ~entries'[self.pk].present
                          /\ moved = self.credit_amount - self.debit_amount
                     ELSE /\ entries'[new.pk].present
                          /\ entries'[new.pk].debit_amount = new.debit_amount
                          /\ entries'[new.pk].credit_amount = new.credit_amount
                          /\ moved = (new.debit_amount - new.credit_amount)
                                     - (IF self.pk = 0 THEN 0
                                        ELSE self.original_debit_amount
                                             - self.original_credit_amount)
             ELSE entries' = entries /\ balance' = balance]_vars

\* A post failed at its balance update: the instance holds the pk of a row
\* that is not stored, and no balance moved.
C16_Witness ==
    /\ last.op = "EntrySave" /\ last.act = "post" /\ ~last.ok
    /\ einst[last.copy].pk # 0
    /\ ~entries[einst[last.copy].pk].present
    /\ \A c \in Customers : balance[c] = 0

\* SpecUntracked: a sale of branch B1 with lines of P and of the service SVC,
\* beside a stored receipt of B1 whose line is of SVC (the line was saved
\* while SVC was still inventory-tracked; Product.is_inventory_tracked is
\* editable and GRNItem.clean runs when a line is saved only). SVC may have a
\* stock row from that time.
UntrackedStockRows ==
    {st \in [StockKeys -> [present : BOOLEAN, quantity : 0..1]] :
        /\ \A key \in StockKeys : st[key].present <=> st[key].quantity = 1
        /\ \A key \in StockKeys : key[1] # "B1" \/ key[2] = "Q" => ~st[key].present}

InitUntracked ==
    /\ saleDb = [s \in SaleIds |-> NoSale]
    /\ saleItems = [k \in ItemSlots |-> NoItem]
    /\ inst = [i \in Copies |-> NoInst]
    /\ \E st \in {PENDING, COMPLETED} :
          /\ grnDb = [g \in GrnIds |-> [present |-> TRUE, status |-> st, branch |-> "B1"]]
          /\ ginst = [j \in GrnCopies |->
                         IF j = 1 THEN LoadedGrnInstance(1, [status |-> st, branch |-> "B1"])
                         ELSE NoGInst]
    /\ grnItems = [k \in GrnItemSlots |->
                      IF k = 1 THEN [present |-> TRUE, grn |-> 1, product |-> "SVC",
                                     quantity_received |-> 1, cost_price_per_unit |-> 0]
                      ELSE NoGrnItem]
    /\ entries = [e \in EntryIds |-> NoEntry]
    /\ balance = [c \in Customers |-> 0]
    /\ einst = [e \in EntryCopies |-> NoEInst]
    /\ txn = NoTxns
    /\ last = Other
    /\ hist = NoHist
    /\ tracked = TrackedAtStart
    /\ stock \in UntrackedStockRows

NextUntracked ==
    \/ \E st \in GRNStatus : GrnSave(1, st) /\ UNCHANGED hist
    \/ \E q \in 1..MaxQty : GrnItemSave(2, 1, "P", q, 0) /\ UNCHANGED hist
    \/ \E st \in {PENDING, COMPLETED} :
          SaleNew(1, st, "B1", CASH, NoCustomer) /\ UNCHANGED hist
    \/ \E st \in SaleStatus : SaleSave(1, st) /\ UNCHANGED hist
    \/ \E k \in ItemSlots, p \in {"P", "SVC"}, q \in 1..MaxQty :
          SaleItemSave(k, 1, inst[1].status, p, q, 1, 0) /\ UNCHANGED hist

SpecUntracked == InitUntracked /\ [][NextUntracked]_vars

\* Sale pk has a line of a product that is not inventory-tracked.
UntrackedSaleLine(items, pk) ==
    \E k \in ItemSlots : /\ items[k].present /\ items[k].sale = pk
                         /\ ~is_inventory_tracked(items[k].product)

\* Receipt pk has a line of a product that is not inventory-tracked.
UntrackedGrnLine(gitems, pk) ==
    \E k \in GrnItemSlots : /\ gitems[k].present /\ gitems[k].grn = pk
                            /\ ~is_inventory_tracked(gitems[k].product)

\* C17: no step creates or changes the stock row of a product that is not
\* inventory-tracked, whatever lines of it the sale deducted or restocked or
\* the receipt completed or reverted holds, and a sale save fails for
\* insufficient stock only when its tracked lines together ask for more of
\* some product than its stock row holds.
C17_UntrackedLinesLeaveStock ==
    [][/\ \A key \in StockKeys :
             ~is_inventory_tracked(key[2]) => stock'[key] = stock[key]
       /\ (SaleSaved /\ ~last'.ok)
             => \E key \in StockKeys :
                   Moved(saleItems', inst[last'.copy].pk, inst[last'.copy].branch, key)
                      > stock[key].quantity]_vars

\* A sale holding a line of SVC has just been restocked after its deduction
\* succeeded, while the receipt with the SVC line stands cancelled and SVC
\* has no stock row.
C17_Witness ==
    /\ last.op = "SaleSave" /\ last.act = "restock" /\ last.ok
    /\ UntrackedSaleLine(saleItems, inst[last.copy].pk)
    /\ UntrackedGrnLine(grnItems, 1)
    /\ grnDb[1].status = CANCELLED
    /\ ~stock[<<"B1", "SVC">>].present

\* SpecGrn: one receipt of branch B1 or B2 with up to MaxGrnItems lines of P
\* and Q, saved in every status from one in-memory instance, against stock
\* rows of B1 that earlier receipts left.
GrnStockRows ==
    {st \in [StockKeys -> [present : BOOLEAN, quantity : 0..1]] :
        /\ \A key \in StockKeys : ~st[key].present => st[key].quantity = 0
        /\ \A key \in StockKeys : key[1] # "B1" \/ key[2] # "P" => ~st[key].present}

InitGrn == Empty /\ stock \in GrnStockRows

NextGrn ==
    \/ \E st \in {PENDING, COMPLETED}, b \in Branches : GrnNew(1, st, b) /\ UNCHANGED hist
    \/ \E st \in GRNStatus : GrnSave(1, st) /\ UNCHANGED hist
    \/ \E k \in GrnItemSlots, p \in {"P", "Q"}, q \in 1..MaxQty :
          GrnItemSave(k, 1, p, q, 0) /\ UNCHANGED hist

SpecGrn == InitGrn /\ [][NextGrn]_vars

\* The receipt of the step just taken has a persisted line.
HasGrnLine(gitems, pk) == \E k \in GrnItemSlots : gitems[k].present /\ gitems[k].grn = pk

InitGrnDirect == Empty /\ stock = NoStockRows

NextGrnDirect ==
    \/ \E j \in GrnCopies, b \in Branches : GrnNew(j, COMPLETED, b) /\ UNCHANGED hist
    \/ \E j \in GrnCopies, pk \in GrnIds : GrnLoad(j, pk) /\ UNCHANGED hist
    \/ \E j \in GrnCopies : GrnSave(j, COMPLETED) /\ UNCHANGED hist
    \/ \E j \in GrnCopies, k \in GrnItemSlots, p \in {"P", "Q"}, q \in 1..MaxQty :
          GrnItemSave(k, j, p, q, 0) /\ UNCHANGED hist

SpecGrnDirect == InitGrnDirect /\ [][NextGrnDirect]_vars

\* C19 as stated: with a receipt created Completed and its lines stored, every
\* stock row holds the summed quantities of the receipt's lines of its
\* product at the receipt's branch (the stock started empty).
C19_DirectCompletionAddsLines ==
    \A pk \in GrnIds :
        (grnDb[pk].present /\ grnDb[pk].status = COMPLETED)
           => \A key \in StockKeys :
                 stock[key].quantity = GrnMoved(grnItems, pk, grnDb[pk].branch, key)

\* C20 as stated: when a stored receipt whose previous status was Completed is
\* saved Pending or Cancelled, every stock row of its branch shrinks by the
\* summed quantities of the receipt's tracked lines of that product.
C20_LeavingCompletedSubtracts ==
    [][(/\ last'.op = "GrnSave"
        /\ ginst[last'.copy].pk # 0
        /\ ginst[last'.copy].original_status = COMPLETED
        /\ ginst'[last'.copy].status # COMPLETED)
          => \A key \in StockKeys :
                stock'[key].quantity
                   = stock[key].quantity
                     - GrnMoved(grnItems, ginst[last'.copy].pk, ginst[last'.copy].branch, key)]_vars

\* The save just taken of a receipt from status `was` (of its stored row;
\* "NEW" when it had none) to the status stored now.
GrnWas == IF ginst[last'.copy].pk = 0 THEN "NEW"
          ELSE grnDb[ginst[last'.copy].pk].status

GrnNow == ginst'[last'.copy].status

\* C21: a receipt save that neither enters Completed nor leaves it (Pending
\* to Cancelled and back, a save with the status unchanged, a Completed
\* receipt saved Completed again, a new receipt saved Pending) leaves every
\* stock row as it was.
C21_OtherSavesLeaveStock ==
    [][(/\ last'.op = "GrnSave"
        /\ (GrnNow = COMPLETED) <=> (GrnWas = COMPLETED))
          => stock' = stock]_vars

\* A Completed receipt with a line whose product has a stock row has just
\* been saved Completed again.
C21_Witness ==
    /\ last.op = "GrnSave" /\ last.act = "none"
    /\ ginst[last.copy].pk # 0
    /\ grnDb[ginst[last.copy].pk].status = COMPLETED
    /\ \E k \in GrnItemSlots :
          /\ grnItems[k].present /\ grnItems[k].grn = ginst[last.copy].pk
          /\ stock[<<ginst[last.copy].branch, grnItems[k].product>>].present

\* GRNItem.save of a line that full_clean rejects: ValidationError is raised
\* before Model.save runs.
GrnItemSaveRejected(k, j, p, q, cost) ==
    /\ ginst[j].live
    /\ ginst[j].pk # 0
    /\ grnItems[k].present => grnItems[k].grn = ginst[j].pk
    /\ ~GrnItemClean(p, q, cost)
    /\ last' = Did("GrnItemSave", j, "none", FALSE)
    /\ UNCHANGED <<stock, saleSide, grnSide, ledgerSide, txn, tracked>>

\* product.is_inventory_tracked = v; product.save()
ProductSetTracked(p, v) ==
    /\ tracked[p] # v
    /\ tracked' = [tracked EXCEPT ![p] = v]
    /\ last' = Other
    /\ UNCHANGED <<stock, saleSide, grnSide, ledgerSide, txn>>

\* SpecGrnLines: one receipt of B1 saved in every status, its lines saved
\* with products P and SVC, quantities from -1 to 1 and costs -1 and 0,
\* while the inventory-tracked flag of P is edited.
InitGrnLines == Empty /\ stock \in GrnStockRows

NextGrnLines ==
    \/ \E st \in {PENDING, COMPLETED} : GrnNew(1, st, "B1") /\ UNCHANGED hist
    \/ \E st \in GRNStatus : GrnSave(1, st) /\ UNCHANGED hist
    \/ \E k \in GrnItemSlots, p \in {"P", "SVC"}, q \in (0 - 1)..1, cost \in (0 - 1)..0 :
          GrnItemSave(k, 1, p, q, cost) /\ UNCHANGED hist
    \/ \E k \in GrnItemSlots, p \in {"P", "SVC"}, q \in (0 - 1)..1, cost \in (0 - 1)..0 :
          GrnItemSaveRejected(k, 1, p, q, cost) /\ UNCHANGED hist
    \/ \E v \in BOOLEAN : ProductSetTracked("P", v) /\ UNCHANGED hist

SpecGrnLines == InitGrnLines /\ [][NextGrnLines]_vars

\* C22 as stated: a rejected line save changes no receipt line, receipt or
\* stock row, and in every stored state each receipt line has a product that
\* is inventory-tracked, a quantity received above zero and a unit cost of
\* zero or more.
C22_InvalidLineRejected ==
    [][/\ (last'.op = "GrnItemSave" /\ ~last'.ok)
             => grnItems' = grnItems /\ grnDb' = grnDb /\ stock' = stock
       /\ \A k \in GrnItemSlots :
             grnItems'[k].present
                => /\ tracked'[grnItems'[k].product]
                   /\ grnItems'[k].quantity_received > 0
                   /\ grnItems'[k].cost_price_per_unit >= 0]_vars

\* Sale pk has a line of product p.
HasSaleLine(items, pk, p) ==
    \E k \in ItemSlots : items[k].present /\ items[k].sale = pk /\ items[k].product = p

\* C23: a sale save that takes the reversal never fails, and it leaves the
\* stock row of every tracked product the sale has a line of present, holding
\* what it held before (nothing when it was absent) plus the summed
\* quantities of those lines; every other stock row stays as it was.
C23_RestockNeverFails ==
    [][(SaleSaved /\ last'.act = "restock")
          => /\ last'.ok
             /\ \A key \in StockKeys :
                   LET pk == inst[last'.copy].pk
                       b == inst[last'.copy].branch
                   IN IF key[1] = b /\ is_inventory_tracked(key[2])
                         /\ HasSaleLine(saleItems', pk, key[2])
                      THEN stock'[key] = [present |-> TRUE,
                                          quantity |-> stock[key].quantity
                                                       + Moved(saleItems', pk, b, key)]
                      ELSE stock'[key] = stock[key]]_vars

\* A reversal has just run for a sale with lines of P and Q: the row of Q
\* holds exactly the quantity of the line of Q.
C23_Witness ==
    /\ last.op = "SaleSave" /\ last.act = "restock" /\ last.ok
    /\ saleItems[1].present /\ saleItems[2].present
    /\ saleItems[1].product = "P" /\ saleItems[2].product = "Q"
    /\ saleItems[2].quantity > 0
    /\ stock[<<"B1", "Q">>] = [present |-> TRUE, quantity |-> saleItems[2].quantity]

\* The instance of the save just taken as it was when save was called: the
\* instance before the step with the customer and amounts assigned to it.
EntrySaved ==
    [einst[last'.copy] EXCEPT !.customer = einst'[last'.copy].customer,
                              !.debit_amount = einst'[last'.copy].debit_amount,
                              !.credit_amount = einst'[last'.copy].credit_amount]

\* rows with the entry type of every row set to ty.
TypedRows(rows, ty) == [pk \in EntryIds |-> [rows[pk] EXCEPT !.entry_type = ty]]

\* C24: every post, edit and delete gives the balances, the stored entries
\* and the instance it would give were the entry of any other type, the type
\* itself set aside.
C24_TypeIsDescriptive ==
    [][/\ (last'.op = "EntrySave" /\ last'.ok)
          => \A ty \in EntryType :
                LET r == EntrySaveOutcome([EntrySaved EXCEPT !.entry_type = ty],
                                          TypedRows(entries, ty), balance)
                IN /\ r.balance = balance'
                   /\ TypedRows(r.rows, ty) = TypedRows(entries', ty)
                   /\ r.self = [einst'[last'.copy] EXCEPT !.entry_type = ty]
       /\ (last'.op = "EntryDelete" /\ last'.ok)
          => \A ty \in EntryType :
                LET r == EntryDeleteOutcome([einst[last'.copy] EXCEPT !.entry_type = ty],
                                            TypedRows(entries, ty), balance)
                IN /\ r.balance = balance'
                   /\ TypedRows(r.rows, ty) = TypedRows(entries', ty)
                   /\ r.self = [einst'[last'.copy] EXCEPT !.entry_type = ty]]_vars

\* An entry of type payment has just been saved with a debit and no credit,
\* and its customer's balance is above zero.
C24_Witness ==
    /\ last.op = "EntrySave"
    /\ einst[last.copy].entry_type = PAYMENT
    /\ einst[last.copy].debit_amount > 0 /\ einst[last.copy].credit_amount = 0
    /\ balance[einst[last.copy].customer] > 0

\* C25: for every in-memory sale, whatever totals, discount and tax it holds
\* and whatever lines are stored, recomputing the totals of the recomputed
\* sale gives the same sub_total and grand_total as the first recomputation.
C25_RecomputeIdempotent ==
    \A i \in Copies :
        inst[i].live =>
            LET once == update_calculated_fields(inst[i], saleItems)
                twice == update_calculated_fields(once, saleItems)
            IN twice.sub_total = once.sub_total /\ twice.grand_total = once.grand_total

\* An in-memory sale with a discount holds totals that a recomputation
\* changes, its lines having been saved through another copy.
C25_Witness ==
    \E i \in Copies :
        /\ inst[i].live /\ inst[i].pk # 0
        /\ inst[i].discount_amount > 0
        /\ update_calculated_fields(inst[i], saleItems).sub_total # inst[i].sub_total
        /\ update_calculated_fields(inst[i], saleItems).grand_total # inst[i].grand_total

\* SpecLineSave: one sale of branch B1 whose lines of P are saved while the
\* in-memory sale attached to the line holds any status, saved or not.
InitLineSave == Empty /\ stock \in StockRows

NextLineSave ==
    \/ \E st \in {PENDING, COMPLETED} :
          SaleNew(1, st, "B1", CASH, NoCustomer) /\ UNCHANGED hist
    \/ \E pk \in SaleIds : SaleLoad(1, pk) /\ UNCHANGED hist
    \/ \E st \in SaleStatus : SaleSave(1, st) /\ UNCHANGED hist
    \/ \E k \in ItemSlots, st \in SaleStatus, q \in 1..MaxQty :
          SaleItemSave(k, 1, st, "P", q, 1, 0) /\ UNCHANGED hist

SpecLineSave == InitLineSave /\ [][NextLineSave]_vars

\* C26 as stated: a line save leaves every stock row as it was, and leaves
\* the stored status and stock_deducted of every sale as they were, whatever
\* status the in-memory sale attached to the line holds.
C26_LineSaveTouchesTotalsOnly ==
    [][last'.op = "SaleItemSave"
          => /\ stock' = stock
             /\ \A pk \in SaleIds :
                   /\ saleDb'[pk].status = saleDb[pk].status
                   /\ saleDb'[pk].stock_deducted = saleDb[pk].stock_deducted]_vars

\* C27 as stated: a save of an in-memory copy of a stored entry, the customer
\* kept, changes the customer's balance by the net amount saved minus the net
\* amount stored for the entry when save was called, whichever copy of the
\* entry is saved.
C27_EditAgainstStoredAmounts ==
    [][(/\ last'.op = "EntrySave" /\ last'.ok
        /\ einst[last'.copy].pk # 0
        /\ entries[einst[last'.copy].pk].present
        /\ entries[einst[last'.copy].pk].customer = EntrySaved.customer)
          => balance'[EntrySaved.customer] - balance[EntrySaved.customer]
                = (EntrySaved.debit_amount - EntrySaved.credit_amount)
                  - (entries[einst[last'.copy].pk].debit_amount
                     - entries[einst[last'.copy].pk].credit_amount)]_vars

\* hist after a step of one receipt: a completion that follows a leave with
\* the lines of the first completion closes the cycle, any other completion
\* opens one from the stock rows it found; a leave with the lines of the
\* completion moves the cycle on; a change of the lines ends it.
CycleAfter ==
    IF last'.op = "GrnSave" /\ last'.act = "receive"
    THEN LET g == ginst'[last'.copy].pk
             c == hist.cycle[g]
         IN IF c.phase = 2 /\ c.lines = grnItems
            THEN [hist EXCEPT !.cycle[g].phase = 3]
            ELSE [hist EXCEPT !.cycle[g] = [phase |-> 1, base |-> stock, lines |-> grnItems]]
    ELSE IF last'.op = "GrnSave" /\ last'.act = "revert"
    THEN LET g == ginst'[last'.copy].pk
             c == hist.cycle[g]
         IN IF c.phase \in {1, 3} /\ c.lines = grnItems
            THEN [hist EXCEPT !.cycle[g].phase = 2]
            ELSE [hist EXCEPT !.cycle[g] = NoHist.cycle[g]]
    ELSE IF grnItems' # grnItems THEN [hist EXCEPT !.cycle = NoHist.cycle]
    ELSE hist

CycleTracked == hist' = CycleAfter

\* SpecGrnCycle: one receipt of branch B1 or B2 with up to MaxGrnItems lines
\* of P and Q, saved in every status from one in-memory instance, against
\* stock rows of B1 that earlier receipts left.
InitGrnCycle == Empty /\ stock \in GrnStockRows

NextGrnCycle ==
    \/ \E st \in {PENDING, COMPLETED}, b \in Branches : GrnNew(1, st, b) /\ CycleTracked
    \/ \E st \in GRNStatus : GrnSave(1, st) /\ CycleTracked
    \/ \E k \in GrnItemSlots, p \in {"P", "Q"}, q \in 1..MaxQty :
          GrnItemSave(k, 1, p, q, 0) /\ CycleTracked

SpecGrnCycle == InitGrnCycle /\ [][NextGrnCycle]_vars

FirstSaleSave == last'.op = "SaleSave" /\ last'.ok /\ inst[last'.copy].pk = 0

\* C29 as stated: the first save of a new sale stores sub_total 0 and
\* grand_total 0.
C29_FirstSaveTotalsZero ==
    [][FirstSaleSave =>
          /\ saleDb'[inst'[last'.copy].pk].sub_total = 0
          /\ saleDb'[inst'[last'.copy].pk].grand_total = 0]_vars

\* C29 amended: the first save of a new sale stores sub_total 0 and
\* grand_total = tax_amount - discount_amount of the sale, no line being
\* persisted yet; a line save stores the sum of the persisted lines as
\* sub_total and that sum less the discount plus the tax of the sale
\* instance of the line as grand_total.
C29_FirstSaveTotals ==
    [][/\ FirstSaleSave =>
             LET self == inst'[last'.copy]
             IN /\ saleDb'[self.pk].sub_total = 0
                /\ saleDb'[self.pk].grand_total = self.tax_amount - self.discount_amount
                /\ \A k \in ItemSlots : ~(saleItems[k].present /\ saleItems[k].sale = self.pk)
       /\ (last'.op = "SaleItemSave" /\ last'.ok) =>
             LET self == inst'[last'.copy]
                 lines == SumTotalPrice(saleItems', self.pk, 1)
             IN /\ saleDb'[self.pk].sub_total = lines
                /\ saleDb'[self.pk].grand_total
                      = (lines - self.discount_amount) + self.tax_amount]_vars

\* A sale with a tax of one and no discount has been saved with no line
\* stored: sub_total is 0 and grand_total is 1.
C29_Witness ==
    /\ last.op = "SaleSave" /\ last.ok
    /\ saleDb[1].present
    /\ \A k \in ItemSlots : ~saleItems[k].present
    /\ saleDb[1].tax_amount = 1 /\ saleDb[1].discount_amount = 0
    /\ saleDb[1].sub_total = 0 /\ saleDb[1].grand_total = 1

\* The lines the loop of a receipt save has gone through when it reaches
\* line k.
LinesBefore(gitems, k) ==
    [i \in GrnItemSlots |-> IF i < k THEN gitems[i] ELSE NoGrnItem]

\* grn.status = st; grn.save(), where stock_item.save() of line k raises
\* (ValidationError from full_clean, or a database error): the exception
\* leaves transaction.atomic(), which rolls back the receipt row and the stock
\* rows of the lines before k; the instance keeps the status it was given and
\* the _original_status it had.
GrnSaveFails(j, st, k) ==
    /\ ginst[j].live
    /\ ginst[j].pk # 0
    /\ grnDb[ginst[j].pk].present
    /\ LET self == [ginst[j] EXCEPT !.status = st]
           out == GrnSaveOutcome(self, grnItems, stock, grnDb)
           part == GrnSaveOutcome(self, LinesBefore(grnItems, k), stock, grnDb)
           item == grnItems[k]
       IN /\ out.act \in {"receive", "revert"}
          /\ item.present /\ item.grn = self.pk
          /\ is_inventory_tracked(item.product)
          /\ out.act = "revert" => part.stock[<<self.branch, item.product>>].present
          /\ WithinBound(part.stock)
          /\ ginst' = [ginst EXCEPT ![j] = self]
          /\ stock' = Atomic(stock, part.stock, FALSE)
          /\ grnDb' = Atomic(grnDb, part.rows, FALSE)
          /\ last' = [Did("GrnSave", j, out.act, FALSE) EXCEPT
                         !.phase = k, !.snap = part.stock]
    /\ UNCHANGED <<saleSide, grnItems, ledgerSide, txn, tracked>>

\* SpecGrnFail: one receipt of branch B1 or B2 with up to MaxGrnItems lines
\* of P and Q, saved in every status from one in-memory instance, each save
\* that moves stock ending or raising at any of its lines.
InitGrnFail == Empty /\ stock \in GrnStockRows

NextGrnFail ==
    \/ \E st \in {PENDING, COMPLETED}, b \in Branches : GrnNew(1, st, b) /\ UNCHANGED hist
    \/ \E st \in GRNStatus : GrnSave(1, st) /\ UNCHANGED hist
    \/ \E k \in GrnItemSlots, p \in {"P", "Q"}, q \in 1..MaxQty :
          GrnItemSave(k, 1, p, q, 0) /\ UNCHANGED hist
    \/ \E st \in GRNStatus, k \in GrnItemSlots : GrnSaveFails(1, st, k) /\ UNCHANGED hist

SpecGrnFail == InitGrnFail /\ [][NextGrnFail]_vars

\* C30: a receipt save in which the stock row save of a line raises leaves the
\* stored receipt, its status included, and every stock row, the rows of the
\* lines processed before that line included, as they were before the save.
C30_ReceiptAndStockTogether ==
    [][(last'.op = "GrnSave" /\ ~last'.ok) => (grnDb' = grnDb /\ stock' = stock)]_vars

\* The completion of a Pending receipt has just raised at its second line
\* after the row of its first line had been written: the receipt is stored
\* Pending and the stock rows are not the ones written.
C30_Witness ==
    /\ last.op = "GrnSave" /\ ~last.ok /\ last.act = "receive"
    /\ last.phase = 2
    /\ last.snap # stock
    /\ grnItems[1].present /\ grnItems[2].present
    /\ ginst[last.copy].status = COMPLETED
    /\ grnDb[ginst[last.copy].pk].status = PENDING

\* SpecFrame: one sale and one receipt, each of branch B1 or B2 with a line of
\* P or Q, saved in every status from one in-memory instance each, against
\* stock rows that hold one unit of every tracked product at both branches or
\* no rows at all.
FrameStockRows ==
    {NoStockRows,
     [key \in StockKeys |-> IF TrackedAtStart[key[2]]
                            THEN [present |-> TRUE, quantity |-> 1] ELSE NoStock]}

InitFrame == Empty /\ stock \in FrameStockRows

NextFrame ==
    \/ \E b \in Branches : SaleNew(1, PENDING, b, CASH, NoCustomer) /\ UNCHANGED hist
    \/ \E st \in SaleStatus : SaleSave(1, st) /\ UNCHANGED hist
    \/ \E p \in {"P", "Q"} :
          SaleItemSave(1, 1, inst[1].status, p, 1, 1, 0) /\ UNCHANGED hist
    \/ \E b \in Branches : GrnNew(1, PENDING, b) /\ UNCHANGED hist
    \/ \E st \in GRNStatus : GrnSave(1, st) /\ UNCHANGED hist
    \/ \E p \in {"P", "Q"} : GrnItemSave(1, 1, p, 1, 0) /\ UNCHANGED hist

SpecFrame == InitFrame /\ [][NextFrame]_vars

\* C31: a step that changes a stock row is a save of a sale or of a receipt,
\* and the row is keyed by the branch of that document and the product of one
\* of its lines; every other stock row is unchanged.
C31_MovementFrame ==
    [][\A key \in StockKeys :
          stock'[key] # stock[key] =>
             \/ /\ SaleSaved
                /\ key[1] = inst'[last'.copy].branch
                /\ HasSaleLine(saleItems', inst'[last'.copy].pk, key[2])
             \/ /\ last'.op = "GrnSave"
                /\ key[1] = ginst'[last'.copy].branch
                /\ GrnLineQty(grnItems', ginst'[last'.copy].pk, key[2], 1) > 0]_vars

\* A receipt of B1 with a line of P only has just been completed against rows
\* of one unit each: the row of P at B1 grew, the row of Q at B1 and the rows
\* of B2 hold one unit still.
C31_Witness ==
    /\ last.op = "GrnSave" /\ last.act = "receive"
    /\ ginst[last.copy].branch = "B1"
    /\ GrnLineQty(grnItems, ginst[last.copy].pk, "P", 1) > 0
    /\ GrnLineQty(grnItems, ginst[last.copy].pk, "Q", 1) = 0
    /\ stock[<<"B1", "P">>].quantity > 1
    /\ stock[<<"B1", "Q">>].quantity = 1
    /\ stock[<<"B2", "P">>].quantity = 1
    /\ stock[<<"B2", "Q">>].quantity = 1

\* C32: when a receipt leaves Completed, a stock row of its branch that does
\* not exist is not created whatever lines the receipt has for its product;
\* every row that exists loses the quantities of the receipt's tracked lines
\* of its product; the save raises nothing and the new status is stored.
C32_MissingRowSkipped ==
    [][(last'.op = "GrnSave" /\ last'.act = "revert")
          => LET self == ginst'[last'.copy]
             IN /\ last'.ok
                /\ grnDb'[self.pk] = [present |-> TRUE, status |-> self.status,
                                      branch |-> self.branch]
                /\ \A key \in StockKeys :
                      IF stock[key].present
                      THEN stock'[key] =
                              [present |-> TRUE,
                               quantity |-> stock[key].quantity
                                            - GrnMoved(grnItems, self.pk, self.branch, key)]
                      ELSE stock'[key] = stock[key]]_vars

\* A Completed receipt of B1 with a line of P and a line of Q has just been
\* cancelled where Q had no stock row: Q has none still, the row of P was
\* reduced and the receipt is stored Cancelled.
C32_Witness ==
    /\ last.op = "GrnSave" /\ last.act = "revert" /\ last.ok
    /\ grnDb[1].present /\ grnDb[1].status = CANCELLED /\ grnDb[1].branch = "B1"
    /\ grnItems[1].present /\ grnItems[1].product = "P"
    /\ grnItems[2].present /\ grnItems[2].product = "Q"
    /\ ~stock[<<"B1", "Q">>].present
    /\ stock[<<"B1", "P">>] = [present |-> TRUE, quantity |-> 0]

\* C33 as stated: a reversal of a sale adds back to every stock row exactly
\* what the deductions of that sale removed from it and no reversal has given
\* back yet, whatever was done to the lines of the sale since.
C33_ReversalReturnsDeduction ==
    [][(SaleSaved /\ last'.act = "restock")
          => \A key \in StockKeys :
                stock'[key].quantity - stock[key].quantity
                   = hist.removed[inst[last'.copy].pk][key]]_vars

\* C34 as stated: a reversal of a receipt subtracts from every stock row no
\* more than the completions of that receipt added to it and no reversal has
\* taken back yet; a receipt that added nothing subtracts nothing.
C34_ReversalFollowsIncrease ==
    [][(last'.op = "GrnSave" /\ last'.act = "revert")
          => \A key \in StockKeys :
                stock[key].quantity - stock'[key].quantity
                   <= hist.added[ginst'[last'.copy].pk][key]]_vars

\* hist after a step of a receipt: a completion and a reversal are recorded
\* as the last stock movement of the receipt.
GrnMoveAfter ==
    IF last'.op = "GrnSave" /\ last'.act \in {"receive", "revert"}
    THEN [hist EXCEPT !.gmove[ginst'[last'.copy].pk] = last'.act]
    ELSE hist

GrnMoveTracked == hist' = GrnMoveAfter

\* SpecGrnCopies: one receipt of branch B1 with a line of product P, loaded
\* into MaxGrnCopies in-memory instances that save in any order, starting
\* without stock rows.
InitGrnCopies == Empty /\ stock = NoStockRows

NextGrnCopies ==
    \/ \E j \in GrnCopies : GrnNew(j, PENDING, "B1") /\ GrnMoveTracked
    \/ \E j \in GrnCopies, pk \in GrnIds : GrnLoad(j, pk) /\ GrnMoveTracked
    \/ \E j \in GrnCopies, st \in GRNStatus : GrnSave(j, st) /\ GrnMoveTracked
    \/ \E j \in GrnCopies, q \in 1..MaxQty : GrnItemSave(1, j, "P", q, 0) /\ GrnMoveTracked

SpecGrnCopies == InitGrnCopies /\ [][NextGrnCopies]_vars

\* C35 as stated: for each receipt, over any order of saves from its
\* in-memory copies, a stock increase follows no increase of that receipt
\* without a reversal in between, and a reversal follows an increase of that
\* receipt directly.
C35_ReceiptMovementsAlternate ==
    [][last'.op = "GrnSave" =>
          /\ last'.act = "receive"
                => hist.gmove[ginst'[last'.copy].pk] # "receive"
          /\ last'.act = "revert"
                => hist.gmove[ginst'[last'.copy].pk] = "receive"]_vars

\* C36 as stated: every stored sale with stock_deducted true has status
\* Completed.
C36_DeductedIsCompleted ==
    \A pk \in SaleIds :
        (saleDb[pk].present /\ saleDb[pk].stock_deducted) => saleDb[pk].status = COMPLETED


\* sale.status = st; sale.save() of a stored sale, where the stock movement
\* goes through and super().save() raises (a database error): the exception
\* leaves transaction.atomic(), which rolls back the stock rows; the instance
\* keeps the status it was given, the stock_deducted the movement set and
\* the _original_status it had.
SaleSaveFails(i, st) ==
    /\ inst[i].live
    /\ inst[i].pk # 0
    /\ saleDb[inst[i].pk].present
    /\ LET self == update_calculated_fields([inst[i] EXCEPT !.status = st], saleItems)
           d == perform_stock_deduction(self, saleItems, stock)
           r == perform_stock_reversal(self, saleItems, stock)
           moved == IF DeductionDue(self) THEN d ELSE r
       IN /\ DeductionDue(self) \/ ReversalDue(self)
          /\ DeductionDue(self) => d.ok
          /\ WithinBound(moved.stock)
          /\ inst' = [inst EXCEPT ![i] = moved.self]
          /\ stock' = Atomic(stock, moved.stock, FALSE)
          /\ saleDb' = Atomic(saleDb, ModelSaveSale(moved.self, saleDb, FALSE).rows, FALSE)
          /\ last' = Did("SaleSave", i, IF DeductionDue(self) THEN "deduct" ELSE "restock",
                         FALSE)
    /\ UNCHANGED <<saleItems, grnSide, ledgerSide, txn, tracked>>

\* SpecSaleFail: one sale of branch B1 with lines of product P, saved in every
\* status from one in-memory instance, each save that moves stock ending or
\* raising when the sale row is written.
InitSaleFail == Empty /\ stock \in StockRows

NextSaleFail ==
    \/ \E st \in {PENDING, COMPLETED} : SaleNew(1, st, "B1", CASH, NoCustomer) /\ Tracked
    \/ \E pk \in SaleIds : SaleLoad(1, pk) /\ Tracked
    \/ \E st \in SaleStatus : SaleSave(1, st) /\ Tracked
    \/ \E k \in ItemSlots, q \in 1..MaxQty :
          SaleItemSave(k, 1, inst[1].status, "P", q, 1, 0) /\ Tracked
    \/ \E st \in SaleStatus : SaleSaveFails(1, st) /\ Tracked

SpecSaleFail == InitSaleFail /\ [][NextSaleFail]_vars

\* C38 as stated: a stored sale has stock_deducted true only while a
\* deduction of that sale is committed and not reversed, also when saves of
\* its in-memory instance were rolled back before.
C38_FlagFollowsDeduction ==
    \A pk \in SaleIds :
        (saleDb[pk].present /\ saleDb[pk].stock_deducted) => hist.move[pk] = "deduct"

\* C37 as stated: a save of a stored entry that gives it another customer
\* takes the net amount stored for the entry from the balance of the customer
\* it had and adds the net amount saved to the balance of the customer it
\* gets.
C37_CustomerChangeMovesNet ==
    [][(/\ last'.op = "EntrySave" /\ last'.ok
        /\ einst[last'.copy].pk # 0
        /\ entries[einst[last'.copy].pk].present
        /\ entries[einst[last'.copy].pk].customer # EntrySaved.customer)
          => LET was == entries[einst[last'.copy].pk]
             IN /\ balance'[was.customer]
                      = balance[was.customer] - (was.debit_amount - was.credit_amount)
                /\ balance'[EntrySaved.customer]
                      = balance[EntrySaved.customer]
                        + (EntrySaved.debit_amount - EntrySaved.credit_amount)]_vars

====
